---- MODULE Spec2Model ----
(***************************************************************************)
(* Model of the metric engine (config_data.py) and of the city -> CBSA     *)
(* matcher (geo_utils.py) of the housing dashboard.                        *)
(*                                                                         *)
(* Conventions                                                             *)
(*   - a nullable number (pandas NaN / None) is a sequence: <<>> is the    *)
(*     missing value, <<v>> carries the value v;                           *)
(*   - a ratio of two numbers is kept as the exact fraction <<num, den>>;  *)
(*     for the integer inputs used here IEEE-754 division compares with    *)
(*     0.5 and 50 exactly as the fraction does;                            *)
(*   - a text is a TLA+ string; the string functions work on its sequence  *)
(*     of characters, Chars(s).                                            *)
(***************************************************************************)
EXTENDS Integers, Sequences, FiniteSets, TLC

VARIABLES
    pti_df,        \* compute_pti: the input table
    pti_out,       \* compute_pti: the returned table
    pti_pc,        \* compute_pti: "call" before the call, "done" after
    rk_df,            \* compute_rankings: the input table
    rk_out,           \* compute_rankings: the table returned for rk_df
    rk_shuffled,      \* the rows of rk_df in another order
    rk_shuffled_out,  \* compute_rankings: the table returned for rk_shuffled
    rk_pc,            \* "call", then "ranked", then "done"
    yoy_df_all,       \* compute_yoy: the table of all years
    yoy_current_year, \* compute_yoy: the year compared with the year before
    yoy_out,          \* compute_yoy: the returned table
    yoy_pc,           \* "call" before the call, "done" after
    df_city,          \* build_city_cbsa_polygons: the metro rows
    cbsa_gdf,         \* build_city_cbsa_polygons: the boundary set
    match_log,        \* the loop's locals, one entry per metro row
    gdf_out,          \* build_city_cbsa_polygons: the returned table
    df_again,         \* the metro rows of a second call with the same boundary set
    match_log_again,  \* the loop's locals in the second call
    gdf_again,        \* the table the second call returned
    match_pc,         \* "call", "done" after the call, "again" after the second
    zip_selected_city,  \* get_zip_polygons_for_metro: the selected metro
    zcta_shapes,      \* the ZIP boundary set
    df_zip_metric,    \* the ZIP-level metric table of the selected year
    zip_df_city,      \* the first returned table
    gdf_merge,        \* the second returned table
    zip_view,         \* the rows the ZIP view keeps
    zip_pc,           \* "call", "returned" after the call, "done" after the view's filter
    shp_path,  \* _resolve_shapefile_path: the path of the shapefile
    zip_path,  \* the path of the archive
    label,  \* the name of the boundary set in the message
    files,  \* the paths that exist on disk
    resolved,  \* the outcome: a returned path or a raised error
    resolve_pc, \* "call" before the call, "done" after
    view_mode,  \* st.session_state["view_mode"]
    selected_city,  \* st.session_state["selected_city"]
    selected_zip,  \* st.session_state["selected_zip"]
    selected_year,  \* the value of the year slider
    metric_type,  \* the value of the metric radio
    sel_event,  \* the user event the last pass of the script processed
    sel_before,  \* the selection state at the start of the last pass
    sel_rerun, \* TRUE when the last pass ended in st.rerun()
    ev_kind,  \* the map the event comes from: "metro" or "zip"
    ev_event,  \* the selection event st.plotly_chart returned
    ev_gdf,  \* the feature table of the map as last rendered
    ev_out,  \* the decoded id, None without one
    ev_pc, \* "call" before the decoding, "done" after
    memo_polygons,  \* the st.cache_data cache of build_city_cbsa_polygons: key -> value
    memo_yoy,  \* the st.cache_data cache of get_metro_yoy: key -> value
    memo_call,  \* the function and the arguments of the last call
    memo_returned,  \* the value the last call returned
    memo_calls, \* the number of calls made, -1 when idle
    tok_city_base,  \* the base name given to build_city_tokens, as characters
    tok_out,  \* the tokens returned
    tok_pc, \* "call" before build_city_tokens, "done" after
    rp_view,  \* view_mode at the start of the pass
    rp_city,  \* selected_city at the start of the pass
    rp_df_year,  \* the rows of df_all of the selected year
    rp_metric,  \* metric_type of the pass
    rp_cbsa,  \* the metro boundaries load_cbsa_shapes returns
    rp_zcta,  \* the ZIP boundaries load_zcta_shapes returns
    rp_out,  \* the outcome of the pass: exception, st.stop(), chart, messages
    rp_pc  \* "call" before the pass, "done" after

ptiVars == <<pti_df, pti_out, pti_pc>>

rankVars == <<rk_df, rk_out, rk_shuffled, rk_shuffled_out, rk_pc>>

yoyVars == <<yoy_df_all, yoy_current_year, yoy_out, yoy_pc>>

matchVars ==
    <<df_city, cbsa_gdf, match_log, gdf_out, df_again, match_log_again, gdf_again, match_pc>>

zipVars == <<zip_selected_city, zcta_shapes, df_zip_metric, zip_df_city, gdf_merge, zip_view, zip_pc>>

resolveVars == <<shp_path, zip_path, label, files, resolved, resolve_pc>>

selVars == <<view_mode, selected_city, selected_zip, selected_year, metric_type, sel_event, sel_before, sel_rerun>>

eventVars == <<ev_kind, ev_event, ev_gdf, ev_out, ev_pc>>

memoVars == <<memo_polygons, memo_yoy, memo_call, memo_returned, memo_calls>>

tokenVars == <<tok_city_base, tok_out, tok_pc>>

renderVars == <<rp_view, rp_city, rp_df_year, rp_metric, rp_cbsa, rp_zcta, rp_out, rp_pc>>

vars == <<ptiVars, rankVars, yoyVars, matchVars, zipVars, resolveVars, selVars, eventVars, memoVars, tokenVars, renderVars>>

\* a function that is not called in the specification at hand
PtiIdle == pti_df = <<>> /\ pti_out = <<>> /\ pti_pc = "idle"

RankIdle ==
    /\ rk_df = <<>>
    /\ rk_out = <<>>
    /\ rk_shuffled = <<>>
    /\ rk_shuffled_out = <<>>
    /\ rk_pc = "idle"

YoyIdle ==
    /\ yoy_df_all = <<>>
    /\ yoy_current_year = 0
    /\ yoy_out = <<>>
    /\ yoy_pc = "idle"

MatchIdle ==
    /\ df_city = <<>>
    /\ cbsa_gdf = <<>>
    /\ match_log = <<>>
    /\ gdf_out = <<>>
    /\ df_again = <<>>
    /\ match_log_again = <<>>
    /\ gdf_again = <<>>
    /\ match_pc = "idle"

ZipIdle ==
    /\ zip_selected_city = ""
    /\ zcta_shapes = <<>>
    /\ df_zip_metric = <<>>
    /\ zip_df_city = <<>>
    /\ gdf_merge = <<>>
    /\ zip_view = <<>>
    /\ zip_pc = "idle"

ResolveIdle ==
    /\ shp_path = ""
    /\ zip_path = ""
    /\ label = ""
    /\ files = {}
    /\ resolved = <<>>
    /\ resolve_pc = "idle"

SelIdle ==
    /\ view_mode = "idle"
    /\ selected_city = <<>>
    /\ selected_zip = <<>>
    /\ selected_year = 0
    /\ metric_type = ""
    /\ sel_event = "idle"
    /\ sel_before = <<>>
    /\ sel_rerun = FALSE

EventIdle ==
    /\ ev_kind = "idle"
    /\ ev_event = <<>>
    /\ ev_gdf = <<>>
    /\ ev_out = <<>>
    /\ ev_pc = "idle"

MemoIdle ==
    /\ memo_polygons = <<>>
    /\ memo_yoy = <<>>
    /\ memo_call = <<>>
    /\ memo_returned = <<>>
    /\ memo_calls = -1

TokenIdle ==
    /\ tok_city_base = <<>>
    /\ tok_out = <<>>
    /\ tok_pc = "idle"

RenderIdle ==
    /\ rp_view = "idle"
    /\ rp_city = <<>>
    /\ rp_df_year = <<>>
    /\ rp_metric = ""
    /\ rp_cbsa = <<>>
    /\ rp_zcta = <<>>
    /\ rp_out = <<>>
    /\ rp_pc = "idle"

(***************************************************************************)
(* Nullable numbers                                                        *)
(***************************************************************************)
NaN == <<>>

notna(x) == x # NaN

Num(v) == <<v>>

Val(x) == x[1]

(***************************************************************************)
(* Sequence helpers                                                        *)
(***************************************************************************)
Range(s) == {s[i] : i \in 1..Len(s)}

(***************************************************************************)
(* Text: the Python string methods the matcher uses, on character          *)
(* sequences                                                               *)
(***************************************************************************)
Chars(s) == [i \in 1..Len(s) |-> SubSeq(s, i, i)]

UPPERCASE == Chars("ABCDEFGHIJKLMNOPQRSTUVWXYZ")

LOWERCASE == Chars("abcdefghijklmnopqrstuvwxyz")

LowerMap ==
    [c \in {UPPERCASE[k] : k \in 1..26} |-> LOWERCASE[CHOOSE k \in 1..26 : UPPERCASE[k] = c]]

UpperMap ==
    [c \in {LOWERCASE[k] : k \in 1..26} |-> UPPERCASE[CHOOSE k \in 1..26 : LOWERCASE[k] = c]]

LowerChar(c) == IF c \in DOMAIN LowerMap THEN LowerMap[c] ELSE c

UpperChar(c) == IF c \in DOMAIN UpperMap THEN UpperMap[c] ELSE c

\* str.lower(), str.upper()
Lower(cs) == [i \in 1..Len(cs) |-> LowerChar(cs[i])]

Upper(cs) == [i \in 1..Len(cs) |-> UpperChar(cs[i])]

\* str.strip()
RECURSIVE LStrip(_)
LStrip(cs) == IF cs # <<>> /\ Head(cs) = " " THEN LStrip(Tail(cs)) ELSE cs

RECURSIVE RStrip(_)
RStrip(cs) ==
    IF cs # <<>> /\ cs[Len(cs)] = " " THEN RStrip(SubSeq(cs, 1, Len(cs) - 1)) ELSE cs

Strip(cs) == RStrip(LStrip(cs))

\* the string of a character sequence
RECURSIVE Str(_)
Str(cs) == IF cs = <<>> THEN "" ELSE Head(cs) \o Str(Tail(cs))

\* pat in cs
Contains(pat, cs) ==
    \E k \in 0..(Len(cs) - Len(pat)) : \A j \in 1..Len(pat) : cs[k + j] = pat[j]

\* Series.str.contains(pat), which searches pat as a regular expression; of
\* the regular-expression syntax the labels can only carry ".", any character
RegexContains(pat, cs) ==
    \E k \in 0..(Len(cs) - Len(pat)) :
        \A j \in 1..Len(pat) : pat[j] = "." \/ cs[k + j] = pat[j]

\* str.split(sep) for a separator of one character
RECURSIVE Split(_, _)
Split(cs, sep) ==
    IF \E k \in 1..Len(cs) : cs[k] = sep
    THEN LET k == CHOOSE x \in 1..Len(cs) :
                      cs[x] = sep /\ \A y \in 1..(x - 1) : cs[y] # sep
         IN  <<SubSeq(cs, 1, k - 1)>> \o Split(SubSeq(cs, k + 1, Len(cs)), sep)
    ELSE <<cs>>

\* list(dict.fromkeys(items)): duplicates removed, first occurrences kept
RECURSIVE Dedup(_)
Dedup(items) ==
    IF items = <<>> THEN <<>>
    ELSE LET front == Dedup(SubSeq(items, 1, Len(items) - 1))
             last == items[Len(items)]
         IN  IF \E k \in 1..Len(front) : front[k] = last
             THEN front
             ELSE Append(front, last)

(***************************************************************************)
(* compute_pti                                                             *)
(***************************************************************************)
INCOME_FLOOR == 5000

PTI_MAX == 50

\* the row mask of the first filter
PtiValidInputStrictIncome(row) ==
    /\ notna(row.median_sale_price)
    /\ notna(row.per_capita_income)
    /\ Val(row.median_sale_price) > 0
    /\ Val(row.per_capita_income) > INCOME_FLOOR

PtiValidInput(row) ==
    /\ notna(row.median_sale_price)
    /\ notna(row.per_capita_income)
    /\ Val(row.median_sale_price) > 0
    /\ Val(row.per_capita_income) >= INCOME_FLOOR

\* df["PTI"] = df["median_sale_price"] / df["per_capita_income"]
PtiRatio(row) == <<Val(row.median_sale_price), Val(row.per_capita_income)>>

\* (df["PTI"] < 0.5) | (df["PTI"] > 50), the denominator being positive
PtiOutlierNoLow(pti) == pti[1] > PTI_MAX * pti[2]

PtiOutlier(pti) == (2 * pti[1] < pti[2]) \/ (pti[1] > PTI_MAX * pti[2])

WithPti(row) ==
    [idx |-> row.idx,
     median_sale_price |-> row.median_sale_price,
     per_capita_income |-> row.per_capita_income,
     PTI |-> PtiRatio(row)]

MaskOutlier(row) == IF PtiOutlier(row.PTI) THEN [row EXCEPT !.PTI = NaN] ELSE row

PtiNotNa(row) == notna(row.PTI)

compute_pti(df) ==
    LET valid  == SelectSeq(df, PtiValidInput)
        ratio  == [i \in 1..Len(valid) |-> WithPti(valid[i])]
        masked == [i \in 1..Len(ratio) |-> MaskOutlier(ratio[i])]
    IN  SelectSeq(masked, PtiNotNa)

(***************************************************************************)
(* Inputs of compute_pti                                                   *)
(***************************************************************************)
MaxPtiRows == 2

PtiPrices == {NaN, Num(0), Num(2499), Num(2500), Num(100000), Num(250000), Num(250001)}

PtiIncomes == {NaN, Num(4999), Num(5000), Num(20000)}

PtiTables ==
    UNION {
        {[i \in 1..n |-> [idx |-> i,
                          median_sale_price |-> p[i],
                          per_capita_income |-> c[i]]] :
            p \in [1..n -> PtiPrices], c \in [1..n -> PtiIncomes]}
        : n \in 0..MaxPtiRows}

InitPti ==
    /\ pti_df \in PtiTables
    /\ pti_out = <<>>
    /\ pti_pc = "call"
    /\ RankIdle
    /\ YoyIdle
    /\ MatchIdle
    /\ ZipIdle
    /\ ResolveIdle
    /\ SelIdle
    /\ EventIdle
    /\ MemoIdle
    /\ TokenIdle
    /\ RenderIdle

ComputePti ==
    /\ pti_pc = "call"
    /\ pti_out' = compute_pti(pti_df)
    /\ pti_pc' = "done"
    /\ UNCHANGED pti_df
    /\ UNCHANGED <<rankVars, yoyVars, matchVars, zipVars, resolveVars, selVars, eventVars, memoVars, tokenVars, renderVars>>

NextPti == ComputePti

SpecPti == InitPti /\ [][NextPti]_vars

(***************************************************************************)
(* Claims about compute_pti                                                *)
(***************************************************************************)
PtiIsRatio(row) ==
    /\ notna(row.PTI)
    /\ notna(row.median_sale_price)
    /\ notna(row.per_capita_income)
    /\ row.PTI[1] = Val(row.median_sale_price)
    /\ row.PTI[2] = Val(row.per_capita_income)
    /\ row.PTI[2] > 0

\* C1 (as stated): every row returned by compute_pti has
\* PTI = median_sale_price / per_capita_income with 0.5 < PTI <= 50; a row
\* with PTI exactly 0.5 never appears in the output.
C1_PtiStrictlyAboveHalf ==
    pti_pc = "done" =>
        \A i \in 1..Len(pti_out) :
            /\ PtiIsRatio(pti_out[i])
            /\ 2 * pti_out[i].PTI[1] > pti_out[i].PTI[2]
            /\ pti_out[i].PTI[1] <= 50 * pti_out[i].PTI[2]

\* C1 (amended): every row returned by compute_pti has
\* PTI = median_sale_price / per_capita_income with 0.5 <= PTI <= 50: the
\* lower bound is inclusive, a row with PTI exactly 0.5 is kept.
C1_PtiWithinClosedRange ==
    pti_pc = "done" =>
        \A i \in 1..Len(pti_out) :
            /\ PtiIsRatio(pti_out[i])
            /\ 2 * pti_out[i].PTI[1] >= pti_out[i].PTI[2]
            /\ pti_out[i].PTI[1] <= 50 * pti_out[i].PTI[2]

\* a call that returns a row at each end of the range: PTI = 0.5 and PTI = 50
C1_Witness ==
    /\ pti_pc = "done"
    /\ \E i \in 1..Len(pti_out) : 2 * pti_out[i].PTI[1] = pti_out[i].PTI[2]
    /\ \E i \in 1..Len(pti_out) : pti_out[i].PTI[1] = 50 * pti_out[i].PTI[2]

\* the rows the claim C2 lists, stated on the input row alone
C2_Kept(row) ==
    /\ row.median_sale_price # NaN
    /\ row.per_capita_income # NaN
    /\ Val(row.median_sale_price) > 0
    /\ Val(row.per_capita_income) >= 5000
    /\ ~ (2 * Val(row.median_sale_price) < Val(row.per_capita_income))
    /\ ~ (Val(row.median_sale_price) > 50 * Val(row.per_capita_income))

\* C2: compute_pti returns exactly the input rows with a non-null price > 0,
\* a non-null income >= 5000 and a ratio neither < 0.5 nor > 50, in their
\* input order; every other row is removed (none is kept with an undefined
\* or zero PTI) and no row is added or duplicated.
C2_PtiReturnsExactlyValidRows ==
    pti_pc = "done" =>
        /\ [i \in 1..Len(pti_out) |->
               [idx |-> pti_out[i].idx,
                median_sale_price |-> pti_out[i].median_sale_price,
                per_capita_income |-> pti_out[i].per_capita_income]]
           = SelectSeq(pti_df, C2_Kept)
        /\ \A i \in 1..Len(pti_out) :
               notna(pti_out[i].PTI) /\ pti_out[i].PTI[1] # 0
        /\ \A i, j \in 1..Len(pti_out) : pti_out[i].idx = pti_out[j].idx => i = j

\* a call that keeps one row and removes another
C2_Witness ==
    /\ pti_pc = "done"
    /\ Len(pti_out) >= 1
    /\ Len(pti_out) < Len(pti_df)

(***************************************************************************)
(* Rounding: numpy's round(1) rounds to the nearest tenth, a value half    *)
(* way between two tenths going to the even one                            *)
(***************************************************************************)
\* num / den rounded to the nearest integer, den > 0
RoundHalfEven(num, den) ==
    LET q == num \div den
        r == num % den
    IN  IF 2 * r < den THEN q
        ELSE IF 2 * r > den THEN q + 1
        ELSE IF q % 2 = 0 THEN q ELSE q + 1

\* num / den rounded to one decimal, as the fraction tenths / 10
Round1(num, den) == <<RoundHalfEven(10 * num, den), 10>>

(***************************************************************************)
(* compute_rankings                                                        *)
(***************************************************************************)
\* s with v inserted before the first element smaller than v
RECURSIVE InsertDesc(_, _)
InsertDesc(v, s) ==
    IF s = <<>> THEN <<v>>
    ELSE IF v >= Head(s) THEN <<v>> \o s
    ELSE <<Head(s)>> \o InsertDesc(v, Tail(s))

\* the values of the column in descending order
RECURSIVE SortDesc(_)
SortDesc(s) == IF s = <<>> THEN <<>> ELSE InsertDesc(Head(s), SortDesc(Tail(s)))

ColumnOf(df) == [i \in 1..Len(df) |-> df[i].value]

\* Series.rank(ascending=False, method="first"): ties ranked in row order
RankFirst(df, i) ==
    1 + Cardinality({j \in 1..Len(df) : df[j].value > df[i].value})
      + Cardinality({j \in 1..(i - 1) : df[j].value = df[i].value})

\* Series.rank(ascending=True, method="min")
RankMinAscending(df, i) ==
    LET sorted == SortDesc(ColumnOf(df))
        n == Len(sorted)
        pos == {p \in 1..n : sorted[n + 1 - p] = df[i].value}
    IN  CHOOSE p \in pos : \A q \in pos : p <= q

\* Series.rank(ascending=False, method="dense"): a row's rank counts the
\* distinct values that are not smaller than its own
RankDense(df, i) ==
    Cardinality({df[j].value : j \in {k \in 1..Len(df) : df[k].value >= df[i].value}})

\* Series.rank(ascending=False, method="min"): the rows take the positions
\* 1..n of the descending order and tied rows share their lowest position
RankMin(df, i) ==
    LET sorted == SortDesc(ColumnOf(df))
        pos == {p \in 1..Len(sorted) : sorted[p] = df[i].value}
    IN  CHOOSE p \in pos : \A q \in pos : p <= q

\* df["rank_total"] = len(df), with the number of distinct values instead
RankTotalDistinct(df) == Cardinality({df[i].value : i \in 1..Len(df)})

RankTotal(df) == Len(df)

\* ((rank_total - rank + 1) / rank_total * 100).round(1), without the + 1
PercentileNoPlusOne(rank, rank_total) == Round1((rank_total - rank) * 100, rank_total)

Percentile(rank, rank_total) == Round1((rank_total - rank + 1) * 100, rank_total)

\* a row with its rank, rank_total and percentile
Ranked(row, rank, rank_total) ==
    [id |-> row.id,
     value |-> row.value,
     rank |-> rank,
     rank_total |-> rank_total,
     percentile |-> Percentile(rank, rank_total)]

compute_rankings(df) ==
    [i \in 1..Len(df) |-> Ranked(df[i], RankMin(df, i), RankTotal(df))]

(***************************************************************************)
(* Inputs of compute_rankings                                              *)
(***************************************************************************)
MaxRankRows == 3

RankValues == {10, 20, 30}

RankTables ==
    UNION {{[i \in 1..n |-> [id |-> i, value |-> v[i]]] : v \in [1..n -> RankValues]}
           : n \in 0..MaxRankRows}

Perms(n) == {p \in [1..n -> 1..n] : \A i, j \in 1..n : p[i] = p[j] => i = j}

InitRank ==
    /\ rk_df \in RankTables
    /\ rk_out = <<>>
    /\ rk_shuffled = <<>>
    /\ rk_shuffled_out = <<>>
    /\ rk_pc = "call"
    /\ PtiIdle
    /\ YoyIdle
    /\ MatchIdle
    /\ ZipIdle
    /\ ResolveIdle
    /\ SelIdle
    /\ EventIdle
    /\ MemoIdle
    /\ TokenIdle
    /\ RenderIdle

\* compute_rankings(rk_df)
ComputeRankings ==
    /\ rk_pc = "call"
    /\ rk_out' = compute_rankings(rk_df)
    /\ rk_pc' = "ranked"
    /\ UNCHANGED <<rk_df, rk_shuffled, rk_shuffled_out>>
    /\ UNCHANGED <<ptiVars, yoyVars, matchVars, zipVars, resolveVars, selVars, eventVars, memoVars, tokenVars, renderVars>>

\* compute_rankings on the same rows taken in the order p
ComputeRankingsShuffled ==
    /\ rk_pc = "ranked"
    /\ \E p \in Perms(Len(rk_df)) :
          LET shuffled == [i \in 1..Len(rk_df) |-> rk_df[p[i]]]
          IN  /\ rk_shuffled' = shuffled
              /\ rk_shuffled_out' = compute_rankings(shuffled)
    /\ rk_pc' = "done"
    /\ UNCHANGED <<rk_df, rk_out>>
    /\ UNCHANGED <<ptiVars, yoyVars, matchVars, zipVars, resolveVars, selVars, eventVars, memoVars, tokenVars, renderVars>>

NextRank == ComputeRankings \/ ComputeRankingsShuffled

SpecRank == InitRank /\ [][NextRank]_vars

(***************************************************************************)
(* Claims about compute_rankings                                           *)
(***************************************************************************)
\* C3: compute_rankings is independent of row order: a row has the same
\* rank, rank_total and percentile in the table ranked from rk_df and in the
\* table ranked from any permutation of the rows of rk_df.
C3_RankingsOrderIndependent ==
    rk_pc = "done" =>
        /\ Len(rk_shuffled_out) = Len(rk_out)
        /\ \A i \in 1..Len(rk_out) :
              \E j \in 1..Len(rk_shuffled_out) :
                  rk_shuffled_out[j].id = rk_out[i].id
        /\ \A i \in 1..Len(rk_out), j \in 1..Len(rk_shuffled_out) :
              rk_shuffled_out[j].id = rk_out[i].id =>
                  /\ rk_shuffled_out[j].rank = rk_out[i].rank
                  /\ rk_shuffled_out[j].rank_total = rk_out[i].rank_total
                  /\ rk_shuffled_out[j].percentile = rk_out[i].percentile

\* two tied rows were swapped by the permutation
C3_Witness ==
    /\ rk_pc = "done"
    /\ \E i, j \in 1..Len(rk_df) :
          /\ i < j
          /\ rk_df[i].value = rk_df[j].value
          /\ rk_shuffled[i].id = rk_df[j].id
          /\ rk_shuffled[j].id = rk_df[i].id

\* C4: ranks are 1-based and descending by value with the minimum-rank tie
\* rule: a row's rank is 1 plus the number of rows with a strictly larger
\* value, so the largest value has rank 1 and rows of equal value share
\* their rank.
C4_RankIsOnePlusLarger ==
    rk_pc # "call" =>
        /\ \A i \in 1..Len(rk_out) :
              rk_out[i].rank =
                  1 + Cardinality({j \in 1..Len(rk_df) : rk_df[j].value > rk_df[i].value})
        /\ \A i \in 1..Len(rk_out) :
              (\A j \in 1..Len(rk_out) : rk_out[j].value <= rk_out[i].value)
                  => rk_out[i].rank = 1
        /\ \A i, j \in 1..Len(rk_out) :
              rk_out[i].value = rk_out[j].value => rk_out[i].rank = rk_out[j].rank

\* two rows tied at rank 1 and a third row ranked 3 behind them
C4_Witness ==
    /\ rk_pc = "ranked"
    /\ \E i, j, k \in 1..Len(rk_out) :
          /\ i # j
          /\ rk_out[i].rank = 1
          /\ rk_out[j].rank = 1
          /\ rk_out[k].rank = 3

\* C5 (as stated): rank_total is the number of rows of the ranked table and
\* percentile is exactly (rank_total - rank + 1) / rank_total * 100.
C5_PercentileExact ==
    rk_pc # "call" =>
        \A i \in 1..Len(rk_out) :
            /\ rk_out[i].rank_total = Len(rk_df)
            /\ rk_out[i].percentile[1] * rk_out[i].rank_total
                   = (rk_out[i].rank_total - rk_out[i].rank + 1) * 100 * rk_out[i].percentile[2]

\* C5 (amended): rank_total is the number of rows of the ranked table (tied
\* rows counted once each) and percentile is
\* (rank_total - rank + 1) / rank_total * 100 rounded to one decimal place:
\* a multiple of 0.1 at most 0.05 away from the exact quotient.
C5_PercentileRoundedToTenth ==
    rk_pc # "call" =>
        \A i \in 1..Len(rk_out) :
            LET total == rk_out[i].rank_total
                exact100 == (total - rk_out[i].rank + 1) * 100
                tenths == rk_out[i].percentile[1]
                diff == tenths * total - 10 * exact100
            IN  /\ total = Len(rk_df)
                /\ rk_out[i].percentile[2] = 10
                /\ 2 * diff <= total
                /\ 2 * diff >= - total

\* three rows of which two are tied: rank_total is 3 and the percentile of
\* a row is not a multiple of 0.1 before rounding
C5_Witness ==
    /\ rk_pc = "ranked"
    /\ \E i, j \in 1..Len(rk_out) :
          /\ i # j
          /\ rk_out[i].value = rk_out[j].value
          /\ rk_out[i].rank_total = 3
          /\ rk_out[i].percentile[1] * 3 # (3 - rk_out[i].rank + 1) * 1000

\* the ranks assigned and the distinct values of the ranked table
C22_Ranks == {rk_out[i].rank : i \in 1..Len(rk_out)}

C22_Values == {rk_out[i].value : i \in 1..Len(rk_out)}

\* the number of rows that share the value of row i
C22_Tied(i) == Cardinality({j \in 1..Len(rk_out) : rk_out[j].value = rk_out[i].value})

\* C22 (as stated): the ranks are dense: for a non-empty table with k
\* distinct values the set of ranks assigned is exactly 1..k, with no gap
\* after a group of tied rows.
C22_RanksDense ==
    (rk_pc # "call" /\ rk_df # <<>>) =>
        C22_Ranks = 1..Cardinality(C22_Values)

\* C22 (amended): the ranks are minimum-tie competition ranks, not dense:
\* a table with k distinct values is given k distinct ranks, the smallest
\* of them 1, and a group of m rows tied at rank r is followed by the rank
\* r + m (m - 1 ranks are skipped), unless the group holds the smallest
\* value; so the ranks are 1..k exactly when no value other than the
\* smallest one is tied.
C22_RanksSkipAfterTies ==
    (rk_pc # "call" /\ rk_df # <<>>) =>
        /\ 1 \in C22_Ranks
        /\ Cardinality(C22_Ranks) = Cardinality(C22_Values)
        /\ \A i \in 1..Len(rk_out) :
              LET next == rk_out[i].rank + C22_Tied(i)
              IN  /\ \A r \in C22_Ranks : r <= rk_out[i].rank \/ r >= next
                  /\ (\E j \in 1..Len(rk_out) : rk_out[j].value < rk_out[i].value)
                         => next \in C22_Ranks
        /\ (C22_Ranks = 1..Cardinality(C22_Values))
               <=> (\A i \in 1..Len(rk_out) :
                       C22_Tied(i) > 1 =>
                           \A j \in 1..Len(rk_out) : rk_out[j].value >= rk_out[i].value)

\* two distinct values, the larger one tied: the ranks assigned are 1 and 3
C22_Witness ==
    /\ rk_pc = "ranked"
    /\ Cardinality(C22_Values) = 2
    /\ C22_Ranks = {1, 3}

(***************************************************************************)
(* compute_yoy                                                             *)
(*                                                                         *)
(* A group mean is the fraction <<sum, count>>; a float quotient with a    *)
(* zero divisor is kept as <<1, 0>> (+inf), <<-1, 0>> (-inf) or NaN (0/0), *)
(* which is what the division of two float columns yields.                 *)
(***************************************************************************)
YearRows(df_all, year) == SelectSeq(df_all, LAMBDA row : row.year = year)

\* the group keys of a table, in the sorted order groupby returns them
RECURSIVE SortedKeys(_)
SortedKeys(keys) ==
    IF keys = {} THEN <<>>
    ELSE LET k == CHOOSE x \in keys : \A y \in keys : x <= y
         IN  <<k>> \o SortedKeys(keys \ {k})

RECURSIVE SumValues(_)
SumValues(rows) == IF rows = <<>> THEN 0 ELSE Head(rows).value + SumValues(Tail(rows))

\* the rows in the order of their group, not aggregated
GroupMeanPerRow(df) ==
    LET keys == SortedKeys({df[i].group : i \in 1..Len(df)})
        position == [k \in 1..Len(keys) |-> {i \in 1..Len(df) : df[i].group = keys[k]}]
        sorted == SelectSeq([n \in 1..(Len(keys) * Len(df)) |->
                                <<((n - 1) \div Len(df)) + 1, ((n - 1) % Len(df)) + 1>>],
                            LAMBDA ki : ki[2] \in position[ki[1]])
    IN  [n \in 1..Len(sorted) |->
            [group |-> df[sorted[n][2]].group, value |-> <<df[sorted[n][2]].value, 1>>]]

\* groupby(group_cols, as_index=False).agg({value_col: "mean"})
GroupMean(df) ==
    LET keys == SortedKeys({df[i].group : i \in 1..Len(df)})
    IN  [k \in 1..Len(keys) |->
            LET rows == SelectSeq(df, LAMBDA row : row.group = keys[k])
            IN  [group |-> keys[k], value |-> <<SumValues(rows), Len(rows)>>]]

\* the value_prev a left merge on the group columns gives a current row
PrevOf(group, agg_prev) ==
    IF \E k \in 1..Len(agg_prev) : agg_prev[k].group = group
    THEN agg_prev[CHOOSE k \in 1..Len(agg_prev) : agg_prev[k].group = group].value
    ELSE NaN

\* merged[value_col] - merged[value_col + "_prev"]
YoyChange(cur, prev) ==
    IF prev = NaN THEN NaN
    ELSE <<cur[1] * prev[2] - prev[1] * cur[2], cur[2] * prev[2]>>

Sign(n) == IF n > 0 THEN 1 ELSE IF n < 0 THEN -1 ELSE 0

\* a / b of two floats given as fractions with positive denominators
FloatDiv(a, b) ==
    IF b[1] = 0
    THEN (IF a[1] = 0 THEN NaN ELSE <<Sign(a[1]), 0>>)
    ELSE <<a[1] * b[2] * Sign(b[1]), a[2] * b[1] * Sign(b[1])>>

\* (yoy_change / value_prev * 100).round(1) with a missing previous value
\* filled with 0
YoyPctZeroFill(change, prev) ==
    IF prev = NaN
    THEN <<0, 10>>
    ELSE LET q == FloatDiv(change, prev)
         IN  IF q = NaN \/ q[2] = 0 THEN q ELSE Round1(q[1] * 100, q[2])

\* (merged["yoy_change"] / merged[value_col + "_prev"] * 100).round(1)
YoyPct(change, prev) ==
    IF prev = NaN \/ change = NaN
    THEN NaN
    ELSE LET q == FloatDiv(change, prev)
         IN  IF q = NaN \/ q[2] = 0 THEN q ELSE Round1(q[1] * 100, q[2])

\* the merge keeping only the groups found on both sides
YoyMergeInner(agg_current, agg_prev) ==
    LET both == SelectSeq(agg_current, LAMBDA c : PrevOf(c.group, agg_prev) # NaN)
    IN  [k \in 1..Len(both) |->
            [group |-> both[k].group,
             value |-> both[k].value,
             value_prev |-> PrevOf(both[k].group, agg_prev)]]

\* agg_current.merge(agg_prev, on=group_cols, suffixes=("", "_prev"), how="left")
YoyMerge(agg_current, agg_prev) ==
    [k \in 1..Len(agg_current) |->
        [group |-> agg_current[k].group,
         value |-> agg_current[k].value,
         value_prev |-> PrevOf(agg_current[k].group, agg_prev)]]

compute_yoy(df_all, current_year) ==
    LET prev_year == current_year - 1
        df_current == YearRows(df_all, current_year)
        df_prev == YearRows(df_all, prev_year)
    IN  IF df_prev = <<>>
        THEN \* the rows of the current year, not grouped, without value_prev
             [i \in 1..Len(df_current) |->
                 [group |-> df_current[i].group,
                  value |-> <<df_current[i].value, 1>>,
                  value_prev |-> NaN,
                  yoy_change |-> NaN,
                  yoy_pct |-> NaN]]
        ELSE LET merged == YoyMerge(GroupMean(df_current), GroupMean(df_prev))
             IN  [k \in 1..Len(merged) |->
                     LET change == YoyChange(merged[k].value, merged[k].value_prev)
                     IN  [group |-> merged[k].group,
                          value |-> merged[k].value,
                          value_prev |-> merged[k].value_prev,
                          yoy_change |-> change,
                          yoy_pct |-> YoyPct(change, merged[k].value_prev)]]

(***************************************************************************)
(* Inputs of compute_yoy: the rows get_metro_yoy passes on, whose value is *)
(* never missing (a sale price, which the local loader does not require to *)
(* be positive)                                                            *)
(***************************************************************************)
MaxYoyRows == 3

YoyGroups == {1, 2}

YoyYears == {2019, 2020, 2021}

YoyCurrentYears == {2021}

YoyValues == {0, 100, 150}

YoyTables ==
    UNION {[1..n -> [group : YoyGroups, year : YoyYears, value : YoyValues]]
           : n \in 0..MaxYoyRows}

InitYoy ==
    /\ yoy_df_all \in YoyTables
    /\ yoy_current_year \in YoyCurrentYears
    /\ yoy_out = <<>>
    /\ yoy_pc = "call"
    /\ PtiIdle
    /\ RankIdle
    /\ MatchIdle
    /\ ZipIdle
    /\ ResolveIdle
    /\ SelIdle
    /\ EventIdle
    /\ MemoIdle
    /\ TokenIdle
    /\ RenderIdle

ComputeYoy ==
    /\ yoy_pc = "call"
    /\ yoy_out' = compute_yoy(yoy_df_all, yoy_current_year)
    /\ yoy_pc' = "done"
    /\ UNCHANGED <<yoy_df_all, yoy_current_year>>
    /\ UNCHANGED <<ptiVars, rankVars, matchVars, zipVars, resolveVars, selVars, eventVars, memoVars, tokenVars, renderVars>>

NextYoy == ComputeYoy

SpecYoy == InitYoy /\ [][NextYoy]_vars

(***************************************************************************)
(* Claims about compute_yoy                                                *)
(***************************************************************************)
\* the rows of a group in a year, and the sum of their values
C6_Rows(group, year) ==
    {i \in 1..Len(yoy_df_all) : yoy_df_all[i].group = group /\ yoy_df_all[i].year = year}

RECURSIVE C6_Sum(_)
C6_Sum(idx) ==
    IF idx = {} THEN 0
    ELSE LET i == CHOOSE x \in idx : TRUE
         IN  yoy_df_all[i].value + C6_Sum(idx \ {i})

\* the current-year average of the group equals its prior-year average
C6_SameAverage(group) ==
    LET cur == C6_Rows(group, yoy_current_year)
        prev == C6_Rows(group, yoy_current_year - 1)
    IN  /\ cur # {}
        /\ prev # {}
        /\ C6_Sum(cur) * Cardinality(prev) = C6_Sum(prev) * Cardinality(cur)

C6_OutRows(group) == {k \in 1..Len(yoy_out) : yoy_out[k].group = group}

\* every group with current-year rows and no prior-year rows is in the
\* result with an undefined yoy_pct and yoy_change
C6_NoPriorIsUndefined ==
    \A g \in YoyGroups :
        (C6_Rows(g, yoy_current_year) # {} /\ C6_Rows(g, yoy_current_year - 1) = {}) =>
            /\ C6_OutRows(g) # {}
            /\ \A k \in C6_OutRows(g) :
                  yoy_out[k].yoy_pct = NaN /\ yoy_out[k].yoy_change = NaN

\* C6 (as stated): a group whose prior-year average equals its current-year
\* average has yoy_pct exactly 0; a group with current-year rows and no
\* prior-year rows has an undefined (NaN) yoy_pct and yoy_change, never 0.
C6_EqualAverageGivesZero ==
    yoy_pc = "done" =>
        /\ \A g \in YoyGroups :
              C6_SameAverage(g) =>
                  /\ C6_OutRows(g) # {}
                  /\ \A k \in C6_OutRows(g) : yoy_out[k].yoy_pct = <<0, 10>>
        /\ C6_NoPriorIsUndefined

\* C6 (amended): a group whose prior-year average equals its current-year
\* average and is not zero has yoy_pct exactly 0 (when both averages are
\* zero, yoy_pct is undefined); a group with current-year rows and no
\* prior-year rows has an undefined (NaN) yoy_pct and yoy_change, never 0.
C6_EqualNonZeroAverageGivesZero ==
    yoy_pc = "done" =>
        /\ \A g \in YoyGroups :
              (C6_SameAverage(g) /\ C6_Sum(C6_Rows(g, yoy_current_year - 1)) # 0) =>
                  /\ C6_OutRows(g) # {}
                  /\ \A k \in C6_OutRows(g) : yoy_out[k].yoy_pct = <<0, 10>>
        /\ C6_NoPriorIsUndefined

\* one group with equal non-zero averages, the other with current-year rows
\* and no prior-year row
C6_Witness ==
    /\ yoy_pc = "done"
    /\ \E g, h \in YoyGroups :
          /\ C6_SameAverage(g)
          /\ C6_Sum(C6_Rows(g, yoy_current_year - 1)) # 0
          /\ C6_Rows(h, yoy_current_year) # {}
          /\ C6_Rows(h, yoy_current_year - 1) = {}
          /\ C6_OutRows(h) # {}

\* C7: whenever the prior-period group average is zero, the year-over-year
\* percentage is the explicit undefined value: not zero, not infinite, not a
\* number.
C7_ZeroPriorIsUndefined ==
    yoy_pc = "done" =>
        \A k \in 1..Len(yoy_out) :
            (yoy_out[k].value_prev # NaN /\ yoy_out[k].value_prev[1] = 0) =>
                yoy_out[k].yoy_pct = NaN

\* the table has rows of the year before the current one
C30_HasPriorRows ==
    \E i \in 1..Len(yoy_df_all) : yoy_df_all[i].year = yoy_current_year - 1

\* C30: when there are prior-year rows, the result of compute_yoy has
\* exactly one row per group that has rows in the current year, carrying
\* the average of the group's current-year values; a group with rows in the
\* prior year only has no row, and the left join drops or duplicates no
\* current-year group.
C30_OneRowPerCurrentGroup ==
    (yoy_pc = "done" /\ C30_HasPriorRows) =>
        /\ \A g \in YoyGroups :
              IF C6_Rows(g, yoy_current_year) = {}
              THEN C6_OutRows(g) = {}
              ELSE /\ Cardinality(C6_OutRows(g)) = 1
                   /\ \A k \in C6_OutRows(g) :
                         yoy_out[k].value[1] * Cardinality(C6_Rows(g, yoy_current_year))
                             = C6_Sum(C6_Rows(g, yoy_current_year)) * yoy_out[k].value[2]
        /\ Len(yoy_out) = Cardinality({g \in YoyGroups : C6_Rows(g, yoy_current_year) # {}})
        /\ \A k \in 1..Len(yoy_out) : yoy_out[k].group \in YoyGroups

\* a group with two current-year rows and no prior-year row next to a group
\* with a prior-year row only
C30_Witness ==
    /\ yoy_pc = "done"
    /\ \E g, h \in YoyGroups :
          /\ Cardinality(C6_Rows(g, yoy_current_year)) = 2
          /\ C6_Rows(g, yoy_current_year - 1) = {}
          /\ C6_Rows(h, yoy_current_year) = {}
          /\ C6_Rows(h, yoy_current_year - 1) # {}
          /\ Cardinality(C6_OutRows(g)) = 1
          /\ C6_OutRows(h) = {}

(***************************************************************************)
(* The city -> CBSA matcher (geo_utils.py)                                 *)
(***************************************************************************)
None == <<>>

\* a or b
Or(a, b) == IF a # "" THEN a ELSE b

DC_CBSA_NAME == "Washington-Arlington-Alexandria, DC-VA-MD-WV"

BOSTON_CBSA_NAME == "Boston-Cambridge-Newton, MA-NH"

MANUAL_CBSA_NAME_MAP == [key \in {"dc_metro"} |-> DC_CBSA_NAME]

\* the separators of build_city_tokens: hyphen, en dash ("~" stands for
\* U+2013) and em dash ("^" stands for U+2014)
TOKEN_SEPARATORS == <<"-", "~", "^">>

\* (city_base, state_abbrev) of a label such as "Seattle, WA"
parse_city_state(city, city_full) ==
    LET raw == Chars(Or(city_full, city))
        split == Split(raw, ",")
        parts == [k \in 1..Len(split) |-> Strip(split[k])]
        city_part == parts[1]
        state_part == IF Len(parts) >= 2 THEN parts[2] ELSE <<>>
        upper == Upper(Strip(state_part))
    IN  [city_base |-> Strip(city_part),
         state_abbrev |-> SubSeq(upper, 1, IF Len(upper) < 2 THEN Len(upper) ELSE 2)]

\* the non-empty stripped parts of city_base split on sep
TokenParts(city_base, sep) ==
    LET split == Split(city_base, sep)
        stripped == [k \in 1..Len(split) |-> Strip(split[k])]
    IN  SelectSeq(stripped, LAMBDA t : t # <<>>)

RECURSIVE ExtendTokens(_, _, _)
ExtendTokens(tokens, city_base, seps) ==
    IF seps = <<>> THEN tokens
    ELSE ExtendTokens(
             IF Contains(<<Head(seps)>>, city_base)
             THEN tokens \o TokenParts(city_base, Head(seps))
             ELSE tokens,
             city_base, Tail(seps))

\* build_city_tokens without the removal of duplicates
build_city_tokens_NoDedup(city_base) ==
    LET base == Lower(Strip(city_base))
    IN  IF base = <<>> THEN <<>>
        ELSE ExtendTokens(<<base>>, base, TOKEN_SEPARATORS)

build_city_tokens(city_base) ==
    LET base == Lower(Strip(city_base))
    IN  IF base = <<>> THEN <<>>
        ELSE Dedup(ExtendTokens(<<base>>, base, TOKEN_SEPARATORS))

\* resolve_manual_cbsa_name looking the label up without lowercasing it
resolve_manual_cbsa_name_NoLower(city, city_full) ==
    LET key == Strip(Chars(Or(city_full, city)))
    IN  IF \E k \in DOMAIN MANUAL_CBSA_NAME_MAP : Chars(k) = key
        THEN <<MANUAL_CBSA_NAME_MAP[CHOOSE k \in DOMAIN MANUAL_CBSA_NAME_MAP : Chars(k) = key]>>
        ELSE IF Contains(Chars("boston"), key)
        THEN <<BOSTON_CBSA_NAME>>
        ELSE None

\* the override name of a label, None without one
resolve_manual_cbsa_name(city, city_full) ==
    LET key == Lower(Strip(Chars(Or(city_full, city))))
    IN  IF \E k \in DOMAIN MANUAL_CBSA_NAME_MAP : Chars(k) = key
        THEN <<MANUAL_CBSA_NAME_MAP[CHOOSE k \in DOMAIN MANUAL_CBSA_NAME_MAP : Chars(k) = key]>>
        ELSE IF Contains(Chars("boston"), key)
        THEN <<BOSTON_CBSA_NAME>>
        ELSE None

\* the rows a boolean mask selects: their positions, in order
Positions(mask) == SelectSeq([k \in 1..Len(mask) |-> k], LAMBDA k : mask[k])

\* the column name_lower, which load_cbsa_shapes adds to the boundary set
name_lower(cbsa, k) == cbsa[k].name_lower

name_upper(cbsa, k) == Upper(Chars(cbsa[k].NAME))

\* stage 1: cbsa_gdf[cbsa_gdf["NAME"] == manual_name]
ManualMatches(cbsa, manual_name) ==
    IF manual_name = None THEN <<>>
    ELSE Positions([k \in 1..Len(cbsa) |-> cbsa[k].NAME = manual_name[1]])

\* stage 2: the exact matches
ExactMatches(cbsa, city_full_lower) ==
    Positions([k \in 1..Len(cbsa) |-> name_lower(cbsa, k) = city_full_lower])

\* stage 2: the substring matches
ContainsMatches(cbsa, city_full_lower) ==
    Positions([k \in 1..Len(cbsa) |-> RegexContains(city_full_lower, name_lower(cbsa, k))])

\* stage 2 taking the exact and the substring matches together
ExactOrContainsNoPriority(cbsa, city_full_lower) ==
    ContainsMatches(cbsa, city_full_lower)

\* stage 2: the exact matches, the substring matches when there is none
ExactOrContains(cbsa, city_full_lower) ==
    LET exact == ExactMatches(cbsa, city_full_lower)
    IN  IF exact = <<>> THEN ContainsMatches(cbsa, city_full_lower) ELSE exact

\* stage 3: base_mask
BaseMask(cbsa, tokens) ==
    Positions([k \in 1..Len(cbsa) |->
        \E t \in 1..Len(tokens) : Contains(tokens[t], name_lower(cbsa, k))])

\* stage 3: state_mask
StateMask(cbsa, state_abbrev) ==
    Positions([k \in 1..Len(cbsa) |-> RegexContains(state_abbrev, name_upper(cbsa, k))])

\* stage 3: mask = base_mask & state_mask; candidates change only when a row
\* of the mask is set
StateRestricted(base, state) ==
    SelectSeq(base, LAMBDA k : \E j \in 1..Len(state) : state[j] = k)

\* stage 3, once base_mask.any() holds
TokenFilter(cbsa, base, state_abbrev) ==
    IF state_abbrev # <<>>
    THEN StateRestricted(base, StateMask(cbsa, state_abbrev))
    ELSE base

\* stage 3 for the tokens and the state code of a label
TokenStage(cbsa, tokens, state_abbrev) ==
    IF tokens = <<>> THEN <<>>
    ELSE TokenFilter(cbsa, BaseMask(cbsa, tokens), state_abbrev)

TokensOf(parsed) == build_city_tokens(parsed.city_base)

TokenStageOf(cbsa, parsed) == TokenStage(cbsa, TokensOf(parsed), parsed.state_abbrev)

\* stage 3 without the state restriction
TokenCandidatesNoState(cbsa, city, city_full) ==
    TokenStage(cbsa, TokensOf(parse_city_state(city, city_full)), <<>>)

\* stage 3: the candidates of the tokenized match
TokenCandidates(cbsa, city, city_full) ==
    TokenStageOf(cbsa, parse_city_state(city, city_full))

isfinite(x) == x # NaN

dist2(cbsa, k, lat0, lon0) ==
    LET dlat == cbsa[k].centroid_lat - Val(lat0)
        dlon == cbsa[k].centroid_lon - Val(lon0)
    IN  dlat * dlat + dlon * dlon

\* cand.sort_values("dist2").iloc[0]: the nearest candidate, the first of
\* them in candidate order when several are equally near (the sort of a
\* short column keeps equal keys in order)
Nearest(cbsa, candidates, lat0, lon0) ==
    candidates[CHOOSE i \in 1..Len(candidates) :
        /\ \A j \in 1..Len(candidates) :
              dist2(cbsa, candidates[i], lat0, lon0) <= dist2(cbsa, candidates[j], lat0, lon0)
        /\ \A j \in 1..(i - 1) :
              dist2(cbsa, candidates[j], lat0, lon0) > dist2(cbsa, candidates[i], lat0, lon0)]

\* the tie-break taking the first candidate whatever the coordinates
BestFirst(cbsa, candidates, lat0, lon0) == candidates[1]

\* the tie-break between the candidates of stages 2 and 3
Best(cbsa, candidates, lat0, lon0) ==
    IF Len(candidates) > 1 /\ isfinite(lat0) /\ isfinite(lon0)
    THEN Nearest(cbsa, candidates, lat0, lon0)
    ELSE candidates[1]

\* the end of an iteration that passed the override stage: the locals, the
\* stages that ran, the stage that decided and the position of best (0 when
\* the row gives no record)
Decide(row, cbsa, manual_name, exact, contains, candidates) ==
    [manual_name |-> manual_name,
     manual_matches |-> <<>>,
     stages |-> (IF manual_name # None THEN <<"manual">> ELSE <<>>)
                \o <<"exact">>
                \o (IF exact = <<>> THEN <<"contains">> ELSE <<>>)
                \o (IF contains = <<>> THEN <<"token">> ELSE <<>>),
     stage |-> IF exact # <<>> THEN "exact"
               ELSE IF contains # <<>> THEN "contains"
               ELSE IF candidates # <<>> THEN "token"
               ELSE "none",
     candidates |-> candidates,
     best |-> IF candidates = <<>> THEN 0 ELSE Best(cbsa, candidates, row.lat, row.lon)]

\* stage 3 run whatever stage 2 found, its candidates added to those of
\* stage 2
FuzzyStageAppends(row, cbsa, city_full, manual_name, exact, contains) ==
    Decide(row, cbsa, manual_name, exact, contains,
           contains \o TokenCandidates(cbsa, row.city, city_full))

\* stage 3 runs when stage 2 left no candidate
FuzzyStage(row, cbsa, city_full, manual_name, exact, contains) ==
    IF contains = <<>>
    THEN Decide(row, cbsa, manual_name, exact, contains,
                TokenCandidates(cbsa, row.city, city_full))
    ELSE Decide(row, cbsa, manual_name, exact, contains, contains)

\* stage 2
StringStage(row, cbsa, city_full, manual_name, city_full_lower) ==
    FuzzyStage(row, cbsa, city_full, manual_name,
               ExactMatches(cbsa, city_full_lower),
               ExactOrContains(cbsa, city_full_lower))

\* stage 1 giving up the row when the override names no boundary of the set
ManualStageDrops(row, cbsa, city_full, manual_name, manual_matches) ==
    IF manual_matches # <<>>
    THEN [manual_name |-> manual_name, manual_matches |-> manual_matches,
          stages |-> <<"manual">>, stage |-> "manual",
          candidates |-> <<>>, best |-> manual_matches[1]]
    ELSE IF manual_name # None
    THEN [manual_name |-> manual_name, manual_matches |-> manual_matches,
          stages |-> <<"manual">>, stage |-> "none",
          candidates |-> <<>>, best |-> 0]
    ELSE StringStage(row, cbsa, city_full, manual_name, Lower(Chars(city_full)))

\* stage 1: a matched override ends the iteration
ManualStage(row, cbsa, city_full, manual_name, manual_matches) ==
    IF manual_matches # <<>>
    THEN [manual_name |-> manual_name, manual_matches |-> manual_matches,
          stages |-> <<"manual">>, stage |-> "manual",
          candidates |-> <<>>, best |-> manual_matches[1]]
    ELSE StringStage(row, cbsa, city_full, manual_name, Lower(Chars(city_full)))

OverrideStage(row, cbsa, city_full, manual_name) ==
    ManualStage(row, cbsa, city_full, manual_name, ManualMatches(cbsa, manual_name))

\* the iteration for a row whose trimmed city_full is given
MatchLabel(row, cbsa, city_full) ==
    IF city_full = ""
    THEN [manual_name |-> None, manual_matches |-> <<>>, stages |-> <<>>,
          stage |-> "skipped", candidates |-> <<>>, best |-> 0]
    ELSE OverrideStage(row, cbsa, city_full, resolve_manual_cbsa_name(row.city, city_full))

\* one iteration of the loop over df_city
MatchRow(row, cbsa) == MatchLabel(row, cbsa, Str(Strip(Chars(row.city_full))))

\* the record appended for a row whose iteration chose the boundary best
MatchRecord(row, cbsa, best) ==
    [city |-> row.city,
     city_full |-> row.city_full,
     metro_name |-> row.city_full,
     avg_metric_value |-> row.avg_metric_value,
     geometry |-> cbsa[best].geometry]

\* the rows of df_city with a candidate, each of them twice
MatchedRowsTwice(log) ==
    SelectSeq([i \in 1..Len(log) |-> i], LAMBDA i : log[i].best # 0)
    \o SelectSeq([i \in 1..Len(log) |-> i], LAMBDA i : log[i].best # 0)

\* the rows of df_city that gave a record
MatchedRows(log) == SelectSeq([i \in 1..Len(log) |-> i], LAMBDA i : log[i].best # 0)

\* records
MatchRecords(df, cbsa, log, matched) ==
    [r \in 1..Len(matched) |-> MatchRecord(df[matched[r]], cbsa, log[matched[r]].best)]

RankInput(records) ==
    [r \in 1..Len(records) |-> [id |-> r, value |-> records[r].avg_metric_value]]

\* gdf_out: the records with the columns compute_rankings adds
WithRankings(records, ranked) ==
    [r \in 1..Len(records) |->
        [city |-> records[r].city,
         city_full |-> records[r].city_full,
         metro_name |-> records[r].metro_name,
         avg_metric_value |-> records[r].avg_metric_value,
         geometry |-> records[r].geometry,
         rank |-> ranked[r].rank,
         rank_total |-> ranked[r].rank_total,
         percentile |-> ranked[r].percentile]]

RankRecords(records) == WithRankings(records, compute_rankings(RankInput(records)))

\* the returned table with the rank columns of the rows of df_city carried
\* over instead of computed over the records
OutputOfInputRanks(df, cbsa, log) ==
    WithRankings(MatchRecords(df, cbsa, log, MatchedRows(log)),
                 [r \in 1..Len(MatchedRows(log)) |-> df[MatchedRows(log)[r]]])

\* the returned table for the log of the loop
OutputOf(df, cbsa, log) == RankRecords(MatchRecords(df, cbsa, log, MatchedRows(log)))

\* the loop with lat0 and lon0 kept from the iteration before
MatchLogStaleCoords(df, cbsa) ==
    [i \in 1..Len(df) |->
        MatchRow(IF i = 1 THEN df[i]
                 ELSE [df[i] EXCEPT !.lat = df[i - 1].lat, !.lon = df[i - 1].lon],
                 cbsa)]

MatchLog(df, cbsa) == [i \in 1..Len(df) |-> MatchRow(df[i], cbsa)]

build_city_cbsa_polygons(df, cbsa) == OutputOf(df, cbsa, MatchLog(df, cbsa))

(***************************************************************************)
(* Inputs of build_city_cbsa_polygons                                      *)
(*                                                                         *)
(* df_city comes from a groupby on the city columns filtered on a defined  *)
(* avg_metric_value (charts.py: create_city_choropleth): its rows are in   *)
(* the order of their city, no city occurs twice, no value is missing and  *)
(* the table is not empty.                                                 *)
(***************************************************************************)
MaxCities == 2

MaxCbsa == 3

\* the metro labels, in the order of their city
CityPool ==
    <<[city |-> "DC_Metro", city_full |-> "DC_Metro"],
      [city |-> "Seattle", city_full |-> "Seattle, WA"],
      [city |-> "Washington", city_full |-> "Washington, DC"]>>

\* (lat, lon) of a metro row: a point without longitude is not valid
CityCoords == {<<Num(39), NaN>>, <<Num(39), Num(-77)>>, <<Num(39), Num(-76)>>}

CityValues == {100, 200}

\* the boundaries; geometry stands for the polygon
CbsaNames ==
    <<DC_CBSA_NAME,
      "Washington, DC",
      "DC_Metro",
      "Seattle-Tacoma-Bellevue, WA",
      "Seattle, OR",
      "Seattle, WA",
      "North Seattle, WA",
      "Washington-Baltimore, DC-MD">>

CbsaCentroids ==
    <<<<39, -77>>, <<38, -77>>, <<39, -76>>, <<47, -122>>, <<45, -123>>, <<48, -122>>,
      <<48, -121>>, <<39, -75>>>>

CbsaPoolOf(names, centroids) ==
    [k \in 1..Len(names) |->
        [NAME |-> names[k],
         name_lower |-> Lower(Chars(names[k])),
         centroid_lat |-> centroids[k][1],
         centroid_lon |-> centroids[k][2],
         geometry |-> k]]

CbsaPool == CbsaPoolOf(CbsaNames, CbsaCentroids)

\* the members of a set of positions in increasing order
RECURSIVE Ascending(_)
Ascending(set) ==
    IF set = {} THEN <<>>
    ELSE LET k == CHOOSE x \in set : \A y \in set : x <= y
         IN  <<k>> \o Ascending(set \ {k})

Reverse(s) == [k \in 1..Len(s) |-> s[Len(s) + 1 - k]]

\* df_city_map: the metro table with the columns compute_rankings adds over
\* all of its rows, the table the metro map is drawn from
df_city_map(df) ==
    LET ranked == compute_rankings(RankInput(df))
    IN  [r \in 1..Len(df) |->
            [city |-> df[r].city,
             city_full |-> df[r].city_full,
             avg_metric_value |-> df[r].avg_metric_value,
             lat |-> df[r].lat,
             lon |-> df[r].lon,
             rank |-> ranked[r].rank,
             rank_total |-> ranked[r].rank_total,
             percentile |-> ranked[r].percentile]]

\* the metro tables of up to MaxCities of the labels of pool
CityTablesOf(pool) ==
    {df_city_map([r \in 1..Cardinality(pick) |->
         [city |-> pool[Ascending(pick)[r]].city,
          city_full |-> pool[Ascending(pick)[r]].city_full,
          avg_metric_value |-> value[Ascending(pick)[r]],
          lat |-> coord[Ascending(pick)[r]][1],
          lon |-> coord[Ascending(pick)[r]][2]]]) :
        pick \in {p \in SUBSET (1..Len(pool)) : Cardinality(p) \in 1..MaxCities},
        value \in [1..Len(pool) -> CityValues],
        coord \in [1..Len(pool) -> CityCoords]}

CityTables == CityTablesOf(CityPool)

\* the boundary sets: up to MaxCbsa boundaries in the order of the pool or in
\* the opposite order
CbsaSetsOf(pool) ==
    UNION {{[k \in 1..Cardinality(pick) |-> pool[Ascending(pick)[k]]],
            [k \in 1..Cardinality(pick) |-> pool[Reverse(Ascending(pick))[k]]]} :
        pick \in {p \in SUBSET (1..Len(pool)) : Cardinality(p) <= MaxCbsa}}

CbsaSets == CbsaSetsOf(CbsaPool)

InitMatch ==
    /\ df_city \in CityTables
    /\ cbsa_gdf \in CbsaSets
    /\ match_log = <<>>
    /\ gdf_out = <<>>
    /\ df_again = <<>>
    /\ match_log_again = <<>>
    /\ gdf_again = <<>>
    /\ match_pc = "call"
    /\ PtiIdle
    /\ RankIdle
    /\ YoyIdle
    /\ ZipIdle
    /\ ResolveIdle
    /\ SelIdle
    /\ EventIdle
    /\ MemoIdle
    /\ TokenIdle
    /\ RenderIdle

BuildCityCbsaPolygons ==
    /\ match_pc = "call"
    /\ match_log' = MatchLog(df_city, cbsa_gdf)
    /\ gdf_out' = OutputOf(df_city, cbsa_gdf, match_log')
    /\ match_pc' = "done"
    /\ UNCHANGED <<df_city, cbsa_gdf, df_again, match_log_again, gdf_again>>
    /\ UNCHANGED <<ptiVars, rankVars, yoyVars, zipVars, resolveVars, selVars, eventVars, memoVars, tokenVars, renderVars>>

\* the tables of a later call: df_city again, or the rows of df_city that
\* another filter of the dashboard leaves
LaterTables(df) == {df} \cup {<<df[i]>> : i \in 1..Len(df)}

\* a second call with the same boundary set
BuildCityCbsaPolygonsAgain ==
    /\ match_pc = "done"
    /\ \E df \in LaterTables(df_city) :
          /\ df_again' = df
          /\ match_log_again' = MatchLog(df, cbsa_gdf)
          /\ gdf_again' = OutputOf(df, cbsa_gdf, match_log_again')
    /\ match_pc' = "again"
    /\ UNCHANGED <<df_city, cbsa_gdf, match_log, gdf_out>>
    /\ UNCHANGED <<ptiVars, rankVars, yoyVars, zipVars, resolveVars, selVars, eventVars, memoVars, tokenVars, renderVars>>

NextMatch == BuildCityCbsaPolygons \/ BuildCityCbsaPolygonsAgain

SpecMatch == InitMatch /\ [][NextMatch]_vars

(***************************************************************************)
(* The matcher on metro labels that contain "boston"                       *)
(***************************************************************************)
\* labels with "boston" in them, one in capitals, and a label without, in
\* the order of their city
BostonCityPool ==
    <<[city |-> "Boston", city_full |-> "BOSTON, MA"],
      [city |-> "New Boston", city_full |-> "New Boston, TX"],
      [city |-> "Seattle", city_full |-> "Seattle, WA"]>>

BostonCbsaNames ==
    <<BOSTON_CBSA_NAME,
      "Boston, MA",
      "New Boston, TX",
      "Boston-Worcester, MA",
      "Seattle, WA">>

BostonCbsaCentroids == <<<<42, -71>>, <<42, -70>>, <<33, -94>>, <<42, -72>>, <<48, -122>>>>

InitMatchBoston ==
    /\ df_city \in CityTablesOf(BostonCityPool)
    /\ cbsa_gdf \in CbsaSetsOf(CbsaPoolOf(BostonCbsaNames, BostonCbsaCentroids))
    /\ match_log = <<>>
    /\ gdf_out = <<>>
    /\ df_again = <<>>
    /\ match_log_again = <<>>
    /\ gdf_again = <<>>
    /\ match_pc = "call"
    /\ PtiIdle
    /\ RankIdle
    /\ YoyIdle
    /\ ZipIdle
    /\ ResolveIdle
    /\ SelIdle
    /\ EventIdle
    /\ MemoIdle
    /\ TokenIdle
    /\ RenderIdle

SpecMatchBoston == InitMatchBoston /\ [][NextMatch]_vars

(***************************************************************************)
(* Claims about the matcher                                                *)
(***************************************************************************)
\* the label of metro row i, lowercased
C8_Label(i) == Lower(Strip(Chars(df_city[i].city_full)))

\* the boundaries whose lowercased name equals the label of row i
C8_ExactSet(i) ==
    {k \in 1..Len(cbsa_gdf) : Lower(Chars(cbsa_gdf[k].NAME)) = C8_Label(i)}

\* the boundaries whose lowercased name contains the label of row i without
\* being equal to it
C8_SubstringOnlySet(i) ==
    {k \in 1..Len(cbsa_gdf) :
        /\ Contains(C8_Label(i), Lower(Chars(cbsa_gdf[k].NAME)))
        /\ Lower(Chars(cbsa_gdf[k].NAME)) # C8_Label(i)}

\* C8: when the override stage does not resolve a row and the boundary set
\* has both a boundary whose lowercased name equals the lowercased city_full
\* and boundaries whose name only contains it, the candidates are exactly
\* the exact-name matches: the exact match is selected, a substring-only
\* boundary never.
C8_ExactMatchWins ==
    match_pc = "done" =>
        \A i \in 1..Len(df_city) :
            (/\ match_log[i].stage # "manual"
             /\ C8_ExactSet(i) # {}
             /\ C8_SubstringOnlySet(i) # {}) =>
                /\ match_log[i].stage = "exact"
                /\ Range(match_log[i].candidates) = C8_ExactSet(i)
                /\ Len(match_log[i].candidates) = Cardinality(C8_ExactSet(i))
                /\ match_log[i].best \in C8_ExactSet(i)

\* a row matched with an exact-name boundary and a substring-only boundary
\* both in the boundary set
C8_Witness ==
    /\ match_pc = "done"
    /\ \E i \in 1..Len(df_city) :
          /\ match_log[i].stage = "exact"
          /\ C8_ExactSet(i) # {}
          /\ C8_SubstringOnlySet(i) # {}

C9_HasBoundary(name) == \E k \in 1..Len(cbsa_gdf) : cbsa_gdf[k].NAME = name

\* the row i is resolved by the override stage alone to the DC boundary,
\* whose polygon its record carries
C9_ResolvedByOverride(i) ==
    /\ match_log[i].stage = "manual"
    /\ match_log[i].stages = <<"manual">>
    /\ match_log[i].best # 0
    /\ cbsa_gdf[match_log[i].best].NAME = "Washington-Arlington-Alexandria, DC-VA-MD-WV"
    /\ \E r \in 1..Len(gdf_out) :
          /\ gdf_out[r].city = df_city[i].city
          /\ gdf_out[r].geometry = cbsa_gdf[match_log[i].best].geometry

\* C9 (as stated): a row with city_full = "Washington, DC" is resolved by
\* the manual-override stage directly to the boundary named
\* "Washington-Arlington-Alexandria, DC-VA-MD-WV", the exact/substring/token
\* stages not being run.
C9_WashingtonDcOverride ==
    match_pc = "done" =>
        \A i \in 1..Len(df_city) :
            (/\ df_city[i].city_full = "Washington, DC"
             /\ C9_HasBoundary("Washington-Arlington-Alexandria, DC-VA-MD-WV")) =>
                C9_ResolvedByOverride(i)

\* C9 (amended): a row whose city_full, trimmed and lowercased, is the
\* override key "dc_metro" is resolved by the manual-override stage directly
\* to the boundary named "Washington-Arlington-Alexandria, DC-VA-MD-WV" when
\* the boundary set has it, the exact/substring/token stages not being run,
\* even when some boundary name would also match by literal substring.
C9_DcMetroOverride ==
    match_pc = "done" =>
        \A i \in 1..Len(df_city) :
            (/\ C8_Label(i) = Chars("dc_metro")
             /\ C9_HasBoundary("Washington-Arlington-Alexandria, DC-VA-MD-WV")) =>
                C9_ResolvedByOverride(i)

\* the override resolved a "DC_Metro" row although a boundary matches its
\* label literally
C9_Witness ==
    /\ match_pc = "done"
    /\ \E i \in 1..Len(df_city) :
          /\ df_city[i].city_full = "DC_Metro"
          /\ C8_ExactSet(i) # {}
          /\ match_log[i].stage = "manual"

\* the row of the scenario of C10
C10_IsRow(i) == df_city[i].city_full = "Seattle, WA"

C10_RanTokenStage(i) == \E j \in 1..Len(match_log[i].stages) : match_log[i].stages[j] = "token"

\* C10: in the tokenized stage with a state code parsed from city_full, only
\* token-matching boundaries whose uppercased name contains the state code
\* are candidates; for "Seattle, WA" with the boundaries
\* "Seattle-Tacoma-Bellevue, WA" and "Seattle, OR" the first is selected and
\* the second is not a candidate.
C10_StateFilter ==
    match_pc = "done" =>
        \A i \in 1..Len(df_city) :
            C10_RanTokenStage(i) =>
                LET state == parse_city_state(df_city[i].city, df_city[i].city_full).state_abbrev
                    tokens == build_city_tokens(
                                  parse_city_state(df_city[i].city, df_city[i].city_full).city_base)
                IN  /\ Len(state) = 2 =>
                          \A c \in 1..Len(match_log[i].candidates) :
                              LET name == Chars(cbsa_gdf[match_log[i].candidates[c]].NAME)
                              IN  /\ Contains(state, Upper(name))
                                  /\ \E t \in 1..Len(tokens) : Contains(tokens[t], Lower(name))
                    /\ (/\ C10_IsRow(i)
                        /\ C9_HasBoundary("Seattle-Tacoma-Bellevue, WA")
                        /\ C9_HasBoundary("Seattle, OR")) =>
                          /\ state = Chars("WA")
                          /\ match_log[i].stage = "token"
                          /\ match_log[i].best # 0
                          /\ cbsa_gdf[match_log[i].best].NAME = "Seattle-Tacoma-Bellevue, WA"
                          /\ \A c \in 1..Len(match_log[i].candidates) :
                                cbsa_gdf[match_log[i].candidates[c]].NAME # "Seattle, OR"

\* the scenario: "Seattle, WA" reached the tokenized stage with both
\* boundaries in the set
C10_Witness ==
    /\ match_pc = "done"
    /\ \E i \in 1..Len(df_city) :
          /\ C10_IsRow(i)
          /\ C10_RanTokenStage(i)
          /\ C9_HasBoundary("Seattle-Tacoma-Bellevue, WA")
          /\ C9_HasBoundary("Seattle, OR")
          /\ match_log[i].stage = "token"

\* the parsed label of metro row i
C11_Parsed(i) == parse_city_state(df_city[i].city, df_city[i].city_full)

\* the boundaries of the set whose lowercased name contains a token of row i
C11_TokenMatched(i) ==
    LET tokens == build_city_tokens(C11_Parsed(i).city_base)
    IN  SelectSeq([k \in 1..Len(cbsa_gdf) |-> k],
                  LAMBDA k : \E t \in 1..Len(tokens) :
                      Contains(tokens[t], Lower(Chars(cbsa_gdf[k].NAME))))

\* row i reached the tokenized stage with a state code, some boundary
\* matches a token and no token-matching boundary contains the state code
C11_Case(i) ==
    /\ C10_RanTokenStage(i)
    /\ C11_Parsed(i).state_abbrev # <<>>
    /\ C11_TokenMatched(i) # <<>>
    /\ \A c \in 1..Len(C11_TokenMatched(i)) :
          ~Contains(C11_Parsed(i).state_abbrev,
                    Upper(Chars(cbsa_gdf[C11_TokenMatched(i)[c]].NAME)))

\* C11: in the tokenized stage, when a state code was parsed and at least
\* one boundary matches a token but no token-matching boundary contains the
\* state code, the candidates are the whole token-matched set, so the row is
\* matched and has an output row.
C11_FallsBackToTokenMatched ==
    match_pc = "done" =>
        \A i \in 1..Len(df_city) :
            C11_Case(i) =>
                /\ match_log[i].candidates = C11_TokenMatched(i)
                /\ match_log[i].best # 0
                /\ \E r \in 1..Len(gdf_out) : gdf_out[r].city = df_city[i].city

\* the output rows of metro row i
C12_OutRows(i) == {r \in 1..Len(gdf_out) : gdf_out[r].city = df_city[i].city}

\* the boundaries whose polygon the output row r carries
C12_Boundaries(r) == {k \in 1..Len(cbsa_gdf) : cbsa_gdf[k].geometry = gdf_out[r].geometry}

\* no stage gave row i a candidate
C12_NoCandidate(i) == match_log[i].best = 0

\* C12: build_city_cbsa_polygons returns, for each input metro row, no
\* output row when no stage gives a candidate and otherwise exactly one
\* output row, which carries the polygon of exactly one boundary; the output
\* has at most as many rows as the input and every output city is the city
\* of an input row.
C12_AtMostOneRowPerCity ==
    match_pc = "done" =>
        /\ \A i \in 1..Len(df_city) :
              IF C12_NoCandidate(i)
              THEN C12_OutRows(i) = {}
              ELSE /\ Cardinality(C12_OutRows(i)) = 1
                   /\ \A r \in C12_OutRows(i) : Cardinality(C12_Boundaries(r)) = 1
        /\ Len(gdf_out) <= Len(df_city)
        /\ \A r \in 1..Len(gdf_out) :
              \E i \in 1..Len(df_city) : gdf_out[r].city = df_city[i].city

\* a call that dropped one row and gave a record for another
C12_Witness ==
    /\ match_pc = "done"
    /\ \E i, j \in 1..Len(df_city) :
          /\ C12_NoCandidate(i)
          /\ match_log[i].stage = "none"
          /\ ~C12_NoCandidate(j)
          /\ C12_OutRows(j) # {}

\* the polygon the output table out carries for the city of row, None when
\* the table has no row for it
C13_Polygon(out, row) ==
    IF \E r \in 1..Len(out) : out[r].city = row.city
    THEN <<out[CHOOSE r \in 1..Len(out) : out[r].city = row.city].geometry>>
    ELSE None

C13_NearestSet(i) ==
    {c \in 1..Len(match_log[i].candidates) :
        \A d \in 1..Len(match_log[i].candidates) :
            dist2(cbsa_gdf, match_log[i].candidates[c], df_city[i].lat, df_city[i].lon)
                <= dist2(cbsa_gdf, match_log[i].candidates[d], df_city[i].lat, df_city[i].lon)}

C14_StringStage(i) == match_log[i].stage \in {"exact", "contains", "token"}

\* the first of the candidates of row i in the order of the boundary set
C14_FirstInOrder(i) ==
    CHOOSE k \in Range(match_log[i].candidates) :
        \A m \in Range(match_log[i].candidates) : k <= m

\* C14: when the string stages give more than one candidate, a row with
\* finite lat and lon gets a candidate of least (centroid_lat - lat)^2 +
\* (centroid_lon - lon)^2 and a row whose lat or lon is not finite gets the
\* first candidate in the order of the boundary set; a single candidate is
\* selected whatever the coordinates.
C14_NearestOrFirst ==
    match_pc = "done" =>
        \A i \in 1..Len(df_city) :
            C14_StringStage(i) =>
                LET cand == match_log[i].candidates
                    best == match_log[i].best
                IN  /\ best \in Range(cand)
                    /\ Len(cand) = 1 => best = cand[1]
                    /\ (Len(cand) > 1 /\ isfinite(df_city[i].lat) /\ isfinite(df_city[i].lon)) =>
                          \A c \in 1..Len(cand) :
                              dist2(cbsa_gdf, best, df_city[i].lat, df_city[i].lon)
                                  <= dist2(cbsa_gdf, cand[c], df_city[i].lat, df_city[i].lon)
                    /\ (Len(cand) > 1 /\ ~(isfinite(df_city[i].lat) /\ isfinite(df_city[i].lon))) =>
                          best = C14_FirstInOrder(i)

\* a row with several candidates whose nearest is not the first of them
C14_Witness ==
    /\ match_pc = "done"
    /\ \E i \in 1..Len(df_city) :
          /\ C14_StringStage(i)
          /\ Len(match_log[i].candidates) > 1
          /\ isfinite(df_city[i].lat) /\ isfinite(df_city[i].lon)
          /\ match_log[i].best # match_log[i].candidates[1]

\* a row with several candidates and no longitude
C14_WitnessNoCoordinate ==
    /\ match_pc = "done"
    /\ \E i \in 1..Len(df_city) :
          /\ C14_StringStage(i)
          /\ Len(match_log[i].candidates) > 1
          /\ isfinite(df_city[i].lat) /\ ~isfinite(df_city[i].lon)
          /\ match_log[i].best = match_log[i].candidates[1]

\* the row of the output table out is ranked among the rows of out
C23_RankedAmong(out, r) ==
    LET larger == {q \in 1..Len(out) : out[q].avg_metric_value > out[r].avg_metric_value}
    IN  /\ out[r].rank_total = Len(out)
        /\ out[r].rank = 1 + Cardinality(larger)
        /\ out[r].percentile = Round1((Len(out) - Cardinality(larger)) * 100, Len(out))

\* the row of df the r-th row of the output table out was made from
C23_InputRow(df, out, r) ==
    df[CHOOSE i \in 1..Len(df) : df[i].city = out[r].city]

\* C23: in the matcher's output table rank, rank_total and percentile are
\* computed over the matched rows only: rank_total is the number of output
\* rows, not the number of input metro rows, and a row's rank is 1 plus the
\* number of output rows with a larger value, whatever rank the input row
\* carried.
C23_RankedOverMatchedRows ==
    /\ match_pc # "call" => \A r \in 1..Len(gdf_out) : C23_RankedAmong(gdf_out, r)
    /\ match_pc = "again" => \A r \in 1..Len(gdf_again) : C23_RankedAmong(gdf_again, r)

\* an input row ranked 2 of 2 behind a row that found no boundary is
\* returned with rank 1 of 1
C23_Witness ==
    /\ match_pc = "done"
    /\ Len(df_city) = 2
    /\ Len(gdf_out) = 1
    /\ C23_InputRow(df_city, gdf_out, 1).rank = 2
    /\ C23_InputRow(df_city, gdf_out, 1).rank_total = 2
    /\ gdf_out[1].rank = 1
    /\ gdf_out[1].rank_total = 1

\* what each stage yields for row i, taken alone: the boundaries named by
\* the override, the boundaries whose lowercased name contains the label and
\* the candidates of the tokenized match
C24_Manual(i) ==
    ManualMatches(cbsa_gdf, resolve_manual_cbsa_name(df_city[i].city, df_city[i].city_full))

C24_Substring(i) ==
    {k \in 1..Len(cbsa_gdf) : Contains(C8_Label(i), Lower(Chars(cbsa_gdf[k].NAME)))}

C24_Token(i) == TokenCandidates(cbsa_gdf, df_city[i].city, df_city[i].city_full)

\* the stage named ran in the iteration of row i
C24_Ran(i, name) == \E j \in 1..Len(match_log[i].stages) : match_log[i].stages[j] = name

\* the candidates of row i are exactly the boundaries of set
C24_CandidatesAre(i, set) ==
    /\ Range(match_log[i].candidates) = set
    /\ Len(match_log[i].candidates) = Cardinality(set)
    /\ match_log[i].best \in set

\* C24: the stages are tried in the order manual override, exact name,
\* substring containment, tokenized match, and the first stage that yields
\* a boundary determines the result: a later stage runs only when every
\* earlier stage yielded nothing, and never adds to or replaces the
\* candidates of an earlier successful stage.
C24_FirstSuccessfulStageWins ==
    match_pc = "done" =>
        \A i \in 1..Len(df_city) :
            /\ C24_Manual(i) # <<>> =>
                  /\ match_log[i].stage = "manual"
                  /\ match_log[i].best = C24_Manual(i)[1]
                  /\ ~C24_Ran(i, "exact") /\ ~C24_Ran(i, "contains") /\ ~C24_Ran(i, "token")
            /\ (C24_Manual(i) = <<>> /\ C8_ExactSet(i) # {}) =>
                  /\ match_log[i].stage = "exact"
                  /\ C24_CandidatesAre(i, C8_ExactSet(i))
                  /\ ~C24_Ran(i, "contains") /\ ~C24_Ran(i, "token")
            /\ (C24_Manual(i) = <<>> /\ C8_ExactSet(i) = {} /\ C24_Substring(i) # {}) =>
                  /\ match_log[i].stage = "contains"
                  /\ C24_CandidatesAre(i, C24_Substring(i))
                  /\ ~C24_Ran(i, "token")
            /\ (C24_Manual(i) = <<>> /\ C24_Substring(i) = {} /\ C24_Token(i) # <<>>) =>
                  /\ match_log[i].stage = "token"
                  /\ C24_CandidatesAre(i, Range(C24_Token(i)))
            /\ (C24_Manual(i) = <<>> /\ C24_Substring(i) = {} /\ C24_Token(i) = <<>>) =>
                  /\ match_log[i].best = 0
                  /\ \A r \in 1..Len(gdf_out) : gdf_out[r].city # df_city[i].city
            /\ C24_Ran(i, "token") => C24_Substring(i) = {}
            /\ C24_Ran(i, "contains") => C8_ExactSet(i) = {}
            /\ C24_Ran(i, "exact") => C24_Manual(i) = <<>>
            /\ match_log[i].best # 0 =>
                  \E r \in 1..Len(gdf_out) :
                      /\ gdf_out[r].city = df_city[i].city
                      /\ gdf_out[r].geometry = cbsa_gdf[match_log[i].best].geometry

\* the substring stage decided a row for which the tokenized match would
\* have yielded a boundary the substring stage did not
C24_Witness ==
    /\ match_pc = "done"
    /\ \E i \in 1..Len(df_city) :
          /\ match_log[i].stage = "contains"
          /\ \E c \in 1..Len(C24_Token(i)) : C24_Token(i)[c] \notin C24_Substring(i)

\* the override decided a row whose label is also the exact name of a
\* boundary
C24_WitnessManual ==
    /\ match_pc = "done"
    /\ \E i \in 1..Len(df_city) :
          /\ match_log[i].stage = "manual"
          /\ C8_ExactSet(i) # {}
          /\ match_log[i].best \notin C8_ExactSet(i)

\* the label of row i, normalized, contains "boston" and is no key of the
\* override table
C26_BostonLabel(i) ==
    /\ Contains(Chars("boston"), C8_Label(i))
    /\ \A key \in DOMAIN MANUAL_CBSA_NAME_MAP : Chars(key) # C8_Label(i)

\* C26: a row whose normalized label contains "boston" and is no key of the
\* override table is resolved by the override stage to the boundary named
\* "Boston-Cambridge-Newton, MA-NH" when the set has a boundary of that
\* name; when it has none, the row is not dropped at that stage: the exact,
\* substring and tokenized stages decide it.
C26_BostonOverride ==
    match_pc = "done" =>
        \A i \in 1..Len(df_city) :
            C26_BostonLabel(i) =>
                IF C9_HasBoundary("Boston-Cambridge-Newton, MA-NH")
                THEN /\ match_log[i].stage = "manual"
                     /\ match_log[i].stages = <<"manual">>
                     /\ match_log[i].best # 0
                     /\ cbsa_gdf[match_log[i].best].NAME = "Boston-Cambridge-Newton, MA-NH"
                     /\ \E r \in 1..Len(gdf_out) :
                           /\ gdf_out[r].city = df_city[i].city
                           /\ gdf_out[r].geometry = cbsa_gdf[match_log[i].best].geometry
                ELSE /\ match_log[i].stage # "manual"
                     /\ C24_Ran(i, "manual") /\ C24_Ran(i, "exact")
                     /\ C8_ExactSet(i) # {} =>
                           match_log[i].stage = "exact" /\ match_log[i].best \in C8_ExactSet(i)
                     /\ (C8_ExactSet(i) = {} /\ C24_Substring(i) # {}) =>
                           match_log[i].stage = "contains" /\ match_log[i].best \in C24_Substring(i)
                     /\ (C24_Substring(i) = {} /\ C24_Token(i) # <<>>) =>
                           match_log[i].stage = "token" /\ match_log[i].best \in Range(C24_Token(i))
                     /\ match_log[i].best # 0 =>
                           \E r \in 1..Len(gdf_out) :
                               /\ gdf_out[r].city = df_city[i].city
                               /\ gdf_out[r].geometry = cbsa_gdf[match_log[i].best].geometry

\* "New Boston, TX" was resolved to the Boston boundary although a boundary
\* carries its exact name
C26_Witness ==
    /\ match_pc = "done"
    /\ \E i \in 1..Len(df_city) :
          /\ df_city[i].city_full = "New Boston, TX"
          /\ C8_ExactSet(i) # {}
          /\ match_log[i].stage = "manual"
          /\ cbsa_gdf[match_log[i].best].NAME = "Boston-Cambridge-Newton, MA-NH"

\* without the Boston boundary in the set, "BOSTON, MA" went on to the
\* tokenized stage and was matched there
C26_WitnessContinues ==
    /\ match_pc = "done"
    /\ ~C9_HasBoundary("Boston-Cambridge-Newton, MA-NH")
    /\ \E i \in 1..Len(df_city) :
          /\ df_city[i].city_full = "BOSTON, MA"
          /\ match_log[i].stage = "token"
          /\ match_log[i].best # 0

(***************************************************************************)
(* get_zip_polygons_for_metro (geo_utils.py) and the filter of the ZIP     *)
(* view (app.py)                                                           *)
(***************************************************************************)
\* df_zip_metric[df_zip_metric["city"] == selected_city]
\*     .dropna(subset=["metric_value"])
ZipRowsOfCity(city, df) ==
    SelectSeq(df, LAMBDA row : row.city = city /\ notna(row.metric_value))

\* zip_df_city[["zip_code_str", "metric_value", "city_full"]].drop_duplicates()
ZipSmall(zip_rows) ==
    Dedup([k \in 1..Len(zip_rows) |->
              [zip_code_str |-> zip_rows[k].zip_code_str,
               metric_value |-> zip_rows[k].metric_value,
               city_full |-> zip_rows[k].city_full]])

\* the rows of the merge for one boundary
MergedWith(shape, small) ==
    [k \in 1..Len(small) |->
        [zip_code_str |-> shape.zip_code_str,
         geometry |-> shape.geometry,
         metric_value |-> small[k].metric_value,
         city_full |-> small[k].city_full]]

\* zcta_shapes.merge(zip_df_small, how="left"): a boundary without a metric
\* row keeps a row with missing values
RECURSIVE ZipMergeLeft(_, _)
ZipMergeLeft(shapes, small) ==
    IF shapes = <<>> THEN <<>>
    ELSE LET found == SelectSeq(small, LAMBDA m : m.zip_code_str = Head(shapes).zip_code_str)
         IN  (IF found = <<>>
              THEN <<[zip_code_str |-> Head(shapes).zip_code_str,
                      geometry |-> Head(shapes).geometry,
                      metric_value |-> NaN,
                      city_full |-> ""]>>
              ELSE MergedWith(Head(shapes), found))
             \o ZipMergeLeft(Tail(shapes), small)

\* zcta_shapes.merge(zip_df_small, on="zip_code_str", how="inner")
RECURSIVE ZipMerge(_, _)
ZipMerge(shapes, small) ==
    IF shapes = <<>> THEN <<>>
    ELSE MergedWith(Head(shapes),
                    SelectSeq(small, LAMBDA m : m.zip_code_str = Head(shapes).zip_code_str))
         \o ZipMerge(Tail(shapes), small)

\* the returned pair for the rows of the metro
ZipResult(zip_rows, shapes) ==
    IF zip_rows = <<>>
    THEN [zip_df_city |-> zip_rows, gdf_merge |-> <<>>]
    ELSE [zip_df_city |-> zip_rows, gdf_merge |-> ZipMerge(shapes, ZipSmall(zip_rows))]

get_zip_polygons_for_metro(city, shapes, df) ==
    ZipResult(ZipRowsOfCity(city, df), shapes)

\* app.py: the rows of zip_df_city the ZIP view keeps; none when it shows
\* the warning "No ZIP code data available"
ZipViewRows(zip_rows, merged) ==
    IF merged = <<>> \/ zip_rows = <<>> THEN <<>>
    ELSE SelectSeq(zip_rows,
                   LAMBDA row : /\ notna(row.metric_value)
                                /\ \E k \in 1..Len(merged) :
                                      merged[k].zip_code_str = row.zip_code_str)

(***************************************************************************)
(* Inputs of get_zip_polygons_for_metro                                    *)
(*                                                                         *)
(* df_zip_metric comes from a groupby on (city, city_full, zip_code_str):  *)
(* one row per city and ZIP, in the order of the keys.                     *)
(***************************************************************************)
MaxZipRows == 3

\* the (city, ZIP) keys, in order
ZipKeys ==
    <<[city |-> "Seattle", city_full |-> "Seattle, WA", zip_code_str |-> "98101"],
      [city |-> "Seattle", city_full |-> "Seattle, WA", zip_code_str |-> "98102"],
      [city |-> "Seattle", city_full |-> "Seattle, WA", zip_code_str |-> "98103"],
      [city |-> "Tacoma", city_full |-> "Tacoma, WA", zip_code_str |-> "98402"]>>

ZipMetricValues == {NaN, Num(100), Num(200)}

\* the metros that can be selected; "Olympia" has no row
ZipCities == {"Seattle", "Tacoma", "Olympia"}

ZipTables ==
    {[r \in 1..Cardinality(pick) |->
         [city |-> ZipKeys[Ascending(pick)[r]].city,
          city_full |-> ZipKeys[Ascending(pick)[r]].city_full,
          zip_code_str |-> ZipKeys[Ascending(pick)[r]].zip_code_str,
          metric_value |-> value[Ascending(pick)[r]]]] :
        pick \in {p \in SUBSET (1..Len(ZipKeys)) : Cardinality(p) <= MaxZipRows},
        value \in [1..Len(ZipKeys) -> ZipMetricValues]}

\* the ZIP boundaries; geometry stands for the polygon
ZctaPool ==
    [k \in 1..Len(ZipKeys) |-> [zip_code_str |-> ZipKeys[k].zip_code_str, geometry |-> k]]

ZctaSets ==
    {[k \in 1..Cardinality(pick) |-> ZctaPool[Ascending(pick)[k]]] :
        pick \in SUBSET (1..Len(ZctaPool))}

InitZip ==
    /\ zip_selected_city \in ZipCities
    /\ zcta_shapes \in ZctaSets
    /\ df_zip_metric \in ZipTables
    /\ zip_df_city = <<>>
    /\ gdf_merge = <<>>
    /\ zip_view = <<>>
    /\ zip_pc = "call"
    /\ PtiIdle
    /\ RankIdle
    /\ YoyIdle
    /\ MatchIdle
    /\ ResolveIdle
    /\ SelIdle
    /\ EventIdle
    /\ MemoIdle
    /\ TokenIdle
    /\ RenderIdle

GetZipPolygonsForMetro ==
    /\ zip_pc = "call"
    /\ zip_df_city' =
           get_zip_polygons_for_metro(zip_selected_city, zcta_shapes, df_zip_metric).zip_df_city
    /\ gdf_merge' =
           get_zip_polygons_for_metro(zip_selected_city, zcta_shapes, df_zip_metric).gdf_merge
    /\ zip_pc' = "returned"
    /\ UNCHANGED <<zip_selected_city, zcta_shapes, df_zip_metric, zip_view>>
    /\ UNCHANGED <<ptiVars, rankVars, yoyVars, matchVars, resolveVars, selVars, eventVars, memoVars, tokenVars, renderVars>>

ZipViewFilter ==
    /\ zip_pc = "returned"
    /\ zip_view' = ZipViewRows(zip_df_city, gdf_merge)
    /\ zip_pc' = "done"
    /\ UNCHANGED <<zip_selected_city, zcta_shapes, df_zip_metric, zip_df_city, gdf_merge>>
    /\ UNCHANGED <<ptiVars, rankVars, yoyVars, matchVars, resolveVars, selVars, eventVars, memoVars, tokenVars, renderVars>>

NextZip == GetZipPolygonsForMetro \/ ZipViewFilter

SpecZip == InitZip /\ [][NextZip]_vars

(***************************************************************************)
(* Claims about the ZIP filter                                             *)
(***************************************************************************)
\* the rows of the metric table of the selected metro with a defined value
C15_MetroRows ==
    {k \in 1..Len(df_zip_metric) :
        /\ df_zip_metric[k].city = zip_selected_city
        /\ df_zip_metric[k].metric_value # NaN}

C15_HasBoundary(zip) == \E b \in 1..Len(zcta_shapes) : zcta_shapes[b].zip_code_str = zip

\* the row is a row of the selected metro with a defined value
C15_IsMetroRow(row) == \E k \in C15_MetroRows : df_zip_metric[k] = row

\* a metro without a row gets two empty tables
C15_EmptyForNoData == C15_MetroRows = {} => (zip_df_city = <<>> /\ gdf_merge = <<>>)

\* C15 (as stated): for a metro without a row with a defined metric_value
\* get_zip_polygons_for_metro returns empty tables; for a metro with data
\* the rows it returns are rows of that metro with a defined metric_value
\* whose ZIP is in the ZIP boundary set.
C15_ReturnedRowsHaveBoundary ==
    zip_pc \in {"returned", "done"} =>
        /\ C15_EmptyForNoData
        /\ \A r \in 1..Len(zip_df_city) :
              /\ C15_IsMetroRow(zip_df_city[r])
              /\ C15_HasBoundary(zip_df_city[r].zip_code_str)
        /\ \A r \in 1..Len(gdf_merge) :
              /\ C15_HasBoundary(gdf_merge[r].zip_code_str)
              /\ \E k \in C15_MetroRows :
                    /\ df_zip_metric[k].zip_code_str = gdf_merge[r].zip_code_str
                    /\ df_zip_metric[k].metric_value = gdf_merge[r].metric_value

\* C15 (amended): for a metro without a row with a defined metric_value
\* both returned tables are empty; for a metro with data the first returned
\* table holds the rows of that metro with a defined metric_value, with or
\* without a boundary, the second is the inner join of the ZIP boundary set
\* with them (one row per boundary that has a metric row, none for a ZIP
\* without boundary and none for a boundary without metric), and the rows
\* the ZIP view keeps of the first table all have a ZIP of the boundary set.
C15_InnerJoinAndViewFilter ==
    /\ zip_pc \in {"returned", "done"} =>
          /\ C15_EmptyForNoData
          /\ Len(zip_df_city) = Cardinality(C15_MetroRows)
          /\ \A r \in 1..Len(zip_df_city) : C15_IsMetroRow(zip_df_city[r])
          /\ \A r \in 1..Len(gdf_merge) :
                /\ C15_HasBoundary(gdf_merge[r].zip_code_str)
                /\ \E k \in C15_MetroRows :
                      /\ df_zip_metric[k].zip_code_str = gdf_merge[r].zip_code_str
                      /\ df_zip_metric[k].metric_value = gdf_merge[r].metric_value
          /\ \A k \in C15_MetroRows :
                C15_HasBoundary(df_zip_metric[k].zip_code_str) =>
                    \E r \in 1..Len(gdf_merge) :
                        gdf_merge[r].zip_code_str = df_zip_metric[k].zip_code_str
    /\ zip_pc = "done" =>
          \A r \in 1..Len(zip_view) :
              /\ C15_IsMetroRow(zip_view[r])
              /\ C15_HasBoundary(zip_view[r].zip_code_str)

\* a metro with a ZIP that has a metric and a boundary, a ZIP that has a
\* metric and no boundary, and a boundary without metric
C15_Witness ==
    /\ zip_pc = "done"
    /\ gdf_merge # <<>>
    /\ zip_view # <<>>
    /\ \E k \in C15_MetroRows : ~C15_HasBoundary(df_zip_metric[k].zip_code_str)
    /\ \E b \in 1..Len(zcta_shapes) :
          \A k \in C15_MetroRows : df_zip_metric[k].zip_code_str # zcta_shapes[b].zip_code_str

\* a metro without data got two empty tables
C15_WitnessNoData ==
    /\ zip_pc = "done"
    /\ C15_MetroRows = {}
    /\ df_zip_metric # <<>>
    /\ zcta_shapes # <<>>
    /\ zip_df_city = <<>>

(***************************************************************************)
(* _resolve_shapefile_path (geo_utils.py)                                  *)
(***************************************************************************)
CBSA_SHP_PATH == "data/cb_2018_us_cbsa_500k.shp"

ZCTA_SHP_PATH == "data/cb_2018_us_zcta510_500k.shp"

CBSA_ZIP_PATH == "data/cbsa_shapes.zip"

ZCTA_ZIP_PATH == "data/zcta_shapes.zip"

\* os.path.exists(path)
exists(disk, path) == path \in disk

\* the RuntimeError of _resolve_shapefile_path
NotFoundMessage(shp, zip, lbl) ==
    lbl \o ": Local shapefile not found. Expected at either '" \o shp \o "' or '" \o zip \o "'."

\* the resolution looking for the archive first
resolve_shapefile_path_ArchiveFirst(disk, shp, zip, lbl) ==
    IF zip # "" /\ exists(disk, zip)
    THEN [raised |-> FALSE, value |-> "zip://" \o zip]
    ELSE IF shp # "" /\ exists(disk, shp)
    THEN [raised |-> FALSE, value |-> shp]
    ELSE [raised |-> TRUE, value |-> NotFoundMessage(shp, zip, lbl)]

\* _resolve_shapefile_path on a disk holding the paths of disk: the returned
\* path, or the message of the error raised
resolve_shapefile_path(disk, shp, zip, lbl) ==
    IF shp # "" /\ exists(disk, shp)
    THEN [raised |-> FALSE, value |-> shp]
    ELSE IF zip # "" /\ exists(disk, zip)
    THEN [raised |-> FALSE, value |-> "zip://" \o zip]
    ELSE [raised |-> TRUE, value |-> NotFoundMessage(shp, zip, lbl)]

ShpPaths == {"", CBSA_SHP_PATH, ZCTA_SHP_PATH}

ZipPaths == {"", CBSA_ZIP_PATH, ZCTA_ZIP_PATH}

Labels == {"CBSA", "ZCTA"}

Disks == SUBSET {CBSA_SHP_PATH, ZCTA_SHP_PATH, CBSA_ZIP_PATH, ZCTA_ZIP_PATH}

InitResolve ==
    /\ shp_path \in ShpPaths
    /\ zip_path \in ZipPaths
    /\ label \in Labels
    /\ files \in Disks
    /\ resolved = <<>>
    /\ resolve_pc = "call"
    /\ PtiIdle
    /\ RankIdle
    /\ YoyIdle
    /\ MatchIdle
    /\ ZipIdle
    /\ SelIdle
    /\ EventIdle
    /\ MemoIdle
    /\ TokenIdle
    /\ RenderIdle

ResolveShapefilePath ==
    /\ resolve_pc = "call"
    /\ resolved' = <<resolve_shapefile_path(files, shp_path, zip_path, label)>>
    /\ resolve_pc' = "done"
    /\ UNCHANGED <<shp_path, zip_path, label, files>>
    /\ UNCHANGED <<ptiVars, rankVars, yoyVars, matchVars, zipVars, selVars, eventVars, memoVars, tokenVars, renderVars>>

NextResolve == ResolveShapefilePath

SpecResolve == InitResolve /\ [][NextResolve]_vars

(***************************************************************************)
(* Claims about the boundary path resolution                               *)
(***************************************************************************)
\* the file a returned path makes geopandas read: the archive itself for a
\* "zip://" path
C16_FileOf(path) ==
    IF Len(Chars(path)) >= 6 /\ SubSeq(Chars(path), 1, 6) = Chars("zip://")
    THEN Str(SubSeq(Chars(path), 7, Len(Chars(path))))
    ELSE path

\* C16: the resolution returns the shapefile path whenever the shapefile
\* exists, also when the archive exists; it returns the archive (as a
\* "zip://" path) only when the shapefile does not exist and the archive
\* does; when neither exists it raises an error whose message holds both
\* paths; the file of a returned path always exists.
C16_ShapefileFirst ==
    resolve_pc = "done" =>
        LET out == resolved[1]
        IN  /\ (shp_path \in files) => (~out.raised /\ out.value = shp_path)
            /\ (shp_path \notin files /\ zip_path \in files) =>
                   (~out.raised /\ out.value = "zip://" \o zip_path)
            /\ (~out.raised /\ C16_FileOf(out.value) = zip_path /\ zip_path # shp_path) =>
                   shp_path \notin files
            /\ (shp_path \notin files /\ zip_path \notin files) =>
                   /\ out.raised
                   /\ Contains(Chars("'" \o shp_path \o "'"), Chars(out.value))
                   /\ Contains(Chars("'" \o zip_path \o "'"), Chars(out.value))
            /\ ~out.raised => C16_FileOf(out.value) \in files

\* the shapefile was returned although the archive exists too
C16_Witness ==
    /\ resolve_pc = "done"
    /\ shp_path \in files
    /\ zip_path \in files
    /\ ~resolved[1].raised
    /\ resolved[1].value = shp_path

\* the archive was returned
C16_WitnessArchive ==
    /\ resolve_pc = "done"
    /\ shp_path # ""
    /\ shp_path \notin files
    /\ ~resolved[1].raised
    /\ resolved[1].value = "zip://" \o zip_path

\* the error was raised for two paths that do not exist
C16_WitnessError ==
    /\ resolve_pc = "done"
    /\ shp_path # "" /\ zip_path # ""
    /\ resolved[1].raised

(***************************************************************************)
(* The selection state and the passes of the script (app.py)               *)
(*                                                                         *)
(* Streamlit runs the script from top to bottom once per user event; a     *)
(* pass that calls st.rerun() stops there and the script runs again with   *)
(* no event. A nullable value of the session state is None or <<value>>.   *)
(***************************************************************************)
Just(x) == <<x>>

\* the session state after "2. Session state init"
SelInitial == [view_mode |-> "city", selected_city |-> None, selected_zip |-> None]

\* the outcome of a pass: the session state and whether st.rerun() was called
Outcome(state, rerun) == [state |-> state, rerun |-> rerun]

\* the years of the slider: min_year to max_year
SelYears == {2020, 2021, 2022}

SelMetrics == {"Median Sale Price", "Price-to-Income Ratio (PTI)"}

SelCities == {"Seattle", "Tacoma"}

\* the data set: the ZIP rows zip_df_city of a metro for a year and a
\* metric, after the filters of the ZIP view, in the order of the table;
\* the data set has no row for 2021
ZipRowsOf(city, year, metric) ==
    IF year = 2021 THEN <<>>
    ELSE IF metric = "Median Sale Price"
    THEN IF city = "Seattle"
         THEN IF year = 2022 THEN <<"98101", "98102">> ELSE <<"98101">>
         ELSE IF year = 2022 THEN <<"98402">> ELSE <<>>
    ELSE IF city = "Seattle" /\ year = 2022 THEN <<"98102">> ELSE <<>>

\* metro_list: the metros with rows in the selected year
MetroList(year) == IF year = 2021 THEN {} ELSE SelCities

\* df_year is empty after the filter of the metric: the script stops
\* before the main view
YearStops(year, metric) == \A city \in SelCities : ZipRowsOf(city, year, metric) = <<>>

\* the metros drawn on the metro map
RenderedMetros(year, metric) == {city \in SelCities : ZipRowsOf(city, year, metric) # <<>>}

\* the Back button leaving selected_zip as it is
SidebarBackKeepsZip(state) ==
    [view_mode |-> "city", selected_city |-> None, selected_zip |-> state.selected_zip]

\* the button "Back to All Metros"
SidebarBack(state) ==
    [view_mode |-> "city", selected_city |-> None, selected_zip |-> None]

\* the button "View ZIP codes" for the metro city_match
SidebarSearch(state, city_match) ==
    [view_mode |-> "zip", selected_city |-> Just(city_match), selected_zip |-> None]

\* the click on the metro map selecting the metro without entering the ZIP
\* view
MetroClickKeepsView(state, clicked_city) ==
    IF clicked_city # None /\ clicked_city # state.selected_city
    THEN Outcome([view_mode |-> state.view_mode, selected_city |-> clicked_city,
                  selected_zip |-> None],
                 TRUE)
    ELSE Outcome(state, FALSE)

\* a click on the metro map decoded as clicked_city (None: no click)
MetroClick(state, clicked_city) ==
    IF clicked_city # None /\ clicked_city # state.selected_city
    THEN Outcome([view_mode |-> "zip", selected_city |-> clicked_city, selected_zip |-> None],
                 TRUE)
    ELSE Outcome(state, FALSE)

\* the default ZIP also replacing a selected ZIP that has no row in the
\* table
DefaultZipResets(state, zip_rows) ==
    IF zip_rows # <<>>
       /\ (state.selected_zip = None
           \/ \A k \in 1..Len(zip_rows) : Just(zip_rows[k]) # state.selected_zip)
    THEN [state EXCEPT !.selected_zip = Just(zip_rows[1])]
    ELSE state

\* the default ZIP of the ZIP view
DefaultZip(state, zip_rows) ==
    IF state.selected_zip = None /\ zip_rows # <<>>
    THEN [state EXCEPT !.selected_zip = Just(zip_rows[1])]
    ELSE state

\* a click on the ZIP map decoded as clicked_zip (None: no click)
ZipClick(state, clicked_zip) ==
    IF clicked_zip # None THEN [state EXCEPT !.selected_zip = clicked_zip] ELSE state

\* the ZIP view
ZipView(state, zip_rows, clicked_zip) ==
    IF zip_rows = <<>> THEN state
    ELSE ZipClick(DefaultZip(state, zip_rows), clicked_zip)

\* the main view; ev is the event of the pass
MainView(state, ev, year, metric) ==
    IF state.view_mode = "city"
    THEN MetroClick(state, IF ev.kind = "metro_click" THEN Just(ev.id) ELSE None)
    ELSE IF state.selected_city = None
    THEN Outcome(state, FALSE)
    ELSE Outcome(ZipView(state, ZipRowsOf(state.selected_city[1], year, metric),
                         IF ev.kind = "zip_click" THEN Just(ev.id) ELSE None),
                 FALSE)

\* one pass of the script
RunPass(state, ev, year, metric) ==
    IF state.view_mode = "zip" /\ ev.kind = "back"
    THEN Outcome(SidebarBack(state), TRUE)
    ELSE IF state.view_mode = "city" /\ ev.kind = "search"
    THEN Outcome(SidebarSearch(state, ev.id), TRUE)
    ELSE IF YearStops(year, metric)
    THEN Outcome(state, FALSE)
    ELSE MainView(state, ev, year, metric)

SelState == [view_mode |-> view_mode, selected_city |-> selected_city, selected_zip |-> selected_zip]

Event(kind, id) == [kind |-> kind, id |-> id]

InitSel ==
    /\ view_mode = SelInitial.view_mode
    /\ selected_city = SelInitial.selected_city
    /\ selected_zip = SelInitial.selected_zip
    /\ selected_year = 2022
    /\ metric_type = "Median Sale Price"
    /\ sel_event = "start"
    /\ sel_before = SelInitial
    /\ sel_rerun = TRUE
    /\ PtiIdle
    /\ RankIdle
    /\ YoyIdle
    /\ MatchIdle
    /\ ZipIdle
    /\ ResolveIdle
    /\ EventIdle
    /\ MemoIdle
    /\ TokenIdle
    /\ RenderIdle

\* a pass for the event ev with the widget values year and metric
Pass(ev, year, metric) ==
    /\ view_mode' = RunPass(SelState, ev, year, metric).state.view_mode
    /\ selected_city' = RunPass(SelState, ev, year, metric).state.selected_city
    /\ selected_zip' = RunPass(SelState, ev, year, metric).state.selected_zip
    /\ sel_rerun' = RunPass(SelState, ev, year, metric).rerun
    /\ selected_year' = year
    /\ metric_type' = metric
    /\ sel_event' = ev.kind
    /\ sel_before' = SelState
    /\ UNCHANGED <<ptiVars, rankVars, yoyVars, matchVars, zipVars, resolveVars, eventVars, memoVars, tokenVars, renderVars>>

\* the first pass, and the pass st.rerun() starts: no event
PassRerun ==
    /\ sel_rerun
    /\ Pass(Event("rerun", ""), selected_year, metric_type)

\* a pass for a widget that is neither the year nor the metric (the basemap)
PassNone ==
    /\ ~sel_rerun
    /\ Pass(Event("none", ""), selected_year, metric_type)

ChangeYear ==
    /\ ~sel_rerun
    /\ \E year \in SelYears \ {selected_year} : Pass(Event("year", ""), year, metric_type)

ChangeMetric ==
    /\ ~sel_rerun
    /\ \E metric \in SelMetrics \ {metric_type} : Pass(Event("metric", ""), selected_year, metric)

Back ==
    /\ ~sel_rerun
    /\ view_mode = "zip"
    /\ Pass(Event("back", ""), selected_year, metric_type)

Search ==
    /\ ~sel_rerun
    /\ view_mode = "city"
    /\ \E city \in MetroList(selected_year) :
          Pass(Event("search", city), selected_year, metric_type)

ClickMetro ==
    /\ ~sel_rerun
    /\ view_mode = "city"
    /\ \E city \in RenderedMetros(selected_year, metric_type) :
          Pass(Event("metro_click", city), selected_year, metric_type)

ClickZip ==
    /\ ~sel_rerun
    /\ view_mode = "zip"
    /\ selected_city # None
    /\ \E k \in 1..Len(ZipRowsOf(selected_city[1], selected_year, metric_type)) :
          Pass(Event("zip_click", ZipRowsOf(selected_city[1], selected_year, metric_type)[k]),
               selected_year, metric_type)

NextSel ==
    \/ PassRerun
    \/ PassNone
    \/ ChangeYear
    \/ ChangeMetric
    \/ Back
    \/ Search
    \/ ClickMetro
    \/ ClickZip

SpecSel == InitSel /\ [][NextSel]_vars

(***************************************************************************)
(* Claims about the selection state                                        *)
(***************************************************************************)
\* C17: from any reachable selection state in ZIP view, the pass of the
\* Back button ends with view_mode = "city", selected_city = None and
\* selected_zip = None, the initial state, and the pass st.rerun() starts
\* after it leaves that state; whatever clicks, searches and changes of
\* year or metric came before.
C17_BackResets ==
    /\ sel_event = "back" =>
          /\ sel_before.view_mode = "zip"
          /\ SelState = SelInitial
          /\ SelState = [view_mode |-> "city", selected_city |-> None, selected_zip |-> None]
          /\ sel_rerun
    /\ (sel_event = "rerun" /\ sel_before = SelInitial) => SelState = SelInitial

\* Back pressed in a ZIP view with a selected metro and a selected ZIP
C17_Witness ==
    /\ sel_event = "back"
    /\ sel_before.view_mode = "zip"
    /\ sel_before.selected_city # None
    /\ sel_before.selected_zip # None
    /\ selected_year # 2022
    /\ metric_type # "Median Sale Price"
    /\ SelState = SelInitial

\* the last pass processed no map click, no metro search and no Back
C18_NoUserEvent == sel_event \in {"rerun", "none", "year", "metric"}

\* C18: a pass of the script that processes no map click, no metro search
\* and no Back leaves view_mode, selected_city and selected_zip unchanged.
C18_OnlyUserEventsMutate == C18_NoUserEvent => SelState = sel_before

\* C27: over every sequence of metro clicks, metro searches, ZIP clicks,
\* year and metric changes and Back actions, view_mode = "city" implies
\* selected_city = None and selected_zip = None, and view_mode = "zip"
\* implies selected_city is not None.
C27_ViewModeInvariant ==
    /\ view_mode \in {"city", "zip"}
    /\ view_mode = "city" => (selected_city = None /\ selected_zip = None)
    /\ view_mode = "zip" => selected_city # None

\* the ZIP view of a metro in which a click replaced the selected ZIP
C27_Witness ==
    /\ view_mode = "zip"
    /\ selected_city # None
    /\ sel_event = "zip_click"
    /\ sel_before.selected_zip # None
    /\ selected_zip # sel_before.selected_zip

\* the metro view entered by Back from the ZIP view of a metro without ZIP
\* rows
C27_WitnessBack ==
    /\ view_mode = "city"
    /\ sel_event = "back"
    /\ sel_before.selected_city # None
    /\ sel_before.selected_zip = None

\* the ZIP codes of the rows of a metro, over the years and metrics
C28_ZipsOf(city) ==
    UNION {Range(ZipRowsOf(city, year, metric)) : year \in SelYears, metric \in SelMetrics}

\* C28: every pass that changes selected_city (metro click, metro search,
\* Back) ends with selected_zip = None; a pass that gives selected_zip a new
\* value leaves selected_city as it was and takes the ZIP from the table of
\* that metro; so a selected ZIP was always set while the selected metro
\* was selected and is never that of a metro selected before.
C28_ZipClearedWithMetro ==
    /\ selected_city # sel_before.selected_city =>
          /\ selected_zip = None
          /\ sel_event \in {"metro_click", "search", "back"}
    /\ (selected_zip # None /\ selected_zip # sel_before.selected_zip) =>
          /\ selected_city = sel_before.selected_city
          /\ selected_city # None
          /\ selected_zip[1] \in Range(ZipRowsOf(selected_city[1], selected_year, metric_type))
    /\ selected_zip # None =>
          /\ selected_city # None
          /\ selected_zip[1] \in C28_ZipsOf(selected_city[1])

\* Back pressed with a ZIP selected: the metro and the ZIP are cleared in
\* the same pass
C28_Witness ==
    /\ sel_event = "back"
    /\ sel_before.selected_city = Just("Tacoma")
    /\ sel_before.selected_zip = Just("98402")
    /\ selected_city = None
    /\ selected_zip = None

\* the last pass ran in ZIP view and was not that of the Back button
C29_ZipViewPass == sel_before.view_mode = "zip" /\ sel_event # "back"

\* the ZIP table of the selected metro for the selected year and metric
C29_ZipTable == ZipRowsOf(selected_city[1], selected_year, metric_type)

\* C29: in ZIP view a ZIP click, the default ZIP assignment and a change of
\* year or metric leave view_mode and selected_city unchanged; a change of
\* year or metric keeps a selected ZIP that is not None, also when the new
\* ZIP table has no row for it; and after a pass of the ZIP view whose ZIP
\* table is not empty selected_zip is not None (None is replaced by the ZIP
\* of the first row).
C29_ZipViewFrame ==
    C29_ZipViewPass =>
        /\ view_mode = "zip"
        /\ selected_city = sel_before.selected_city
        /\ (sel_event \in {"year", "metric"} /\ sel_before.selected_zip # None) =>
              selected_zip = sel_before.selected_zip
        /\ (selected_city # None /\ C29_ZipTable # <<>>) =>
              /\ selected_zip # None
              /\ sel_before.selected_zip = None =>
                    (sel_event = "zip_click" \/ selected_zip = Just(C29_ZipTable[1]))

\* the year was changed in ZIP view and the selected ZIP has no row in the
\* table of the new year
C29_Witness ==
    /\ C29_ZipViewPass
    /\ sel_event = "year"
    /\ selected_city # None
    /\ selected_zip # None
    /\ C29_ZipTable # <<>>
    /\ selected_zip[1] \notin Range(C29_ZipTable)

\* the default ZIP was assigned by a pass that followed a change of year
C29_WitnessDefault ==
    /\ C29_ZipViewPass
    /\ sel_event = "year"
    /\ sel_before.selected_zip = None
    /\ selected_city # None
    /\ C29_ZipTable # <<>>
    /\ selected_zip = Just(C29_ZipTable[1])

(***************************************************************************)
(* Click-event decoding (events.py)                                        *)
(*                                                                         *)
(* An event is None or <<points>>, the points of event.selection; a point  *)
(* has the keys customdata, location and point_index, each None or         *)
(* <<value>>; customdata is a list, point_index counts from 0.             *)
(***************************************************************************)
\* event and event.selection and event.selection.points
HasPoints(event) == event # None /\ event[1] # <<>>

\* isinstance(cd, (list, tuple)) and len(cd) > 0
HasPayload(point) == point.customdata # None /\ point.customdata[1] # <<>>

\* extract_city_from_event: the table of the metro map is not a parameter
extract_city_from_event(event) ==
    IF HasPoints(event) /\ HasPayload(event[1][1])
    THEN Just(event[1][1].customdata[1][1])
    ELSE None

\* gdf_zip[gdf_zip["id"] == str(location)]
MatchLocation(gdf_zip, location) ==
    SelectSeq(gdf_zip, LAMBDA row : location # None /\ row.id = location[1])

\* the lookups of extract_zip_from_event for a point without payload
ZipOfPosition(point, gdf_zip) ==
    IF MatchLocation(gdf_zip, point.location) # <<>>
    THEN Just(MatchLocation(gdf_zip, point.location)[1].zip_code_str)
    ELSE IF point.point_index # None /\ point.point_index[1] < Len(gdf_zip)
    THEN Just(gdf_zip[point.point_index[1] + 1].zip_code_str)
    ELSE None

extract_zip_from_event(event, gdf_zip) ==
    IF ~HasPoints(event) THEN None
    ELSE IF HasPayload(event[1][1]) THEN Just(event[1][1].customdata[1][1])
    ELSE ZipOfPosition(event[1][1], gdf_zip)

MaxFeatures == 2

\* the ids of the features: their position in the table, as a string
FeatureIds == <<"0", "1", "2", "3">>

MetroNames == <<"Seattle", "Tacoma", "Olympia", "Spokane">>

ZipCodes == <<"98101", "98102", "98103", "98104">>

\* create_city_choropleth: the table of the metro map
MetroFeatures ==
    {[k \in 1..n |-> [id |-> FeatureIds[k], city |-> MetroNames[k]]] : n \in 1..MaxFeatures}

\* create_zip_choropleth: the table of the ZIP map
ZipFeatures ==
    {[k \in 1..n |-> [id |-> FeatureIds[k], zip_code_str |-> ZipCodes[k]]] : n \in 1..MaxFeatures}

\* the key customdata of a point: none, an empty list, the columns of a row
\* of the map
Payloads(kind) ==
    {None, Just(<<>>)}
    \cup {Just(<<(IF kind = "metro" THEN MetroNames ELSE ZipCodes)[k], "Seattle, WA">>) :
            k \in 1..MaxFeatures}

Locations == {None} \cup {Just(FeatureIds[k]) : k \in 1..(MaxFeatures + 1)}

PointIndexes == {None} \cup {Just(k) : k \in 0..MaxFeatures}

Points(kind) ==
    [customdata : Payloads(kind), location : Locations, point_index : PointIndexes]

\* no event, an event without point, an event with one point
SelectionEvents(kind) == {None, Just(<<>>)} \cup {Just(<<point>>) : point \in Points(kind)}

InitEvent ==
    /\ ev_kind \in {"metro", "zip"}
    /\ ev_event \in SelectionEvents(ev_kind)
    /\ ev_gdf \in (IF ev_kind = "metro" THEN MetroFeatures ELSE ZipFeatures)
    /\ ev_out = None
    /\ ev_pc = "call"
    /\ PtiIdle
    /\ RankIdle
    /\ YoyIdle
    /\ MatchIdle
    /\ ZipIdle
    /\ ResolveIdle
    /\ SelIdle
    /\ MemoIdle
    /\ TokenIdle
    /\ RenderIdle

ExtractCityFromEvent ==
    /\ ev_pc = "call"
    /\ ev_kind = "metro"
    /\ ev_out' = extract_city_from_event(ev_event)
    /\ ev_pc' = "done"
    /\ UNCHANGED <<ev_kind, ev_event, ev_gdf>>
    /\ UNCHANGED <<ptiVars, rankVars, yoyVars, matchVars, zipVars, resolveVars, selVars, memoVars, tokenVars, renderVars>>

ExtractZipFromEvent ==
    /\ ev_pc = "call"
    /\ ev_kind = "zip"
    /\ ev_out' = extract_zip_from_event(ev_event, ev_gdf)
    /\ ev_pc' = "done"
    /\ UNCHANGED <<ev_kind, ev_event, ev_gdf>>
    /\ UNCHANGED <<ptiVars, rankVars, yoyVars, matchVars, zipVars, resolveVars, selVars, memoVars, tokenVars, renderVars>>

NextEvent == ExtractCityFromEvent \/ ExtractZipFromEvent

SpecEvent == InitEvent /\ [][NextEvent]_vars

(***************************************************************************)
(* Claims about the click-event decoding                                   *)
(***************************************************************************)
\* the id column of a row of the table of the map
C19_IdOf(row) == IF ev_kind = "metro" THEN row.city ELSE row.zip_code_str

\* the rows of the table the point designates by its location
C19_RowsAtLocation(point) ==
    {k \in 1..Len(ev_gdf) : point.location # None /\ ev_gdf[k].id = point.location[1]}

\* the rows of the table the point designates by its index
C19_RowsAtIndex(point) ==
    {k \in 1..Len(ev_gdf) : point.point_index # None /\ k = point.point_index[1] + 1}

\* the point carries a payload
C19_Payload(point) == point.customdata # None /\ Len(point.customdata[1]) > 0

\* the decoding of an event that has a point
C19_Decoded(point) ==
    /\ C19_Payload(point) => ev_out = Just(point.customdata[1][1])
    /\ (~C19_Payload(point) /\ C19_RowsAtLocation(point) # {}) =>
          \E k \in C19_RowsAtLocation(point) : ev_out = Just(C19_IdOf(ev_gdf[k]))
    /\ (~C19_Payload(point) /\ C19_RowsAtLocation(point) = {}
          /\ C19_RowsAtIndex(point) # {}) =>
          \E k \in C19_RowsAtIndex(point) : ev_out = Just(C19_IdOf(ev_gdf[k]))

\* C19: for metro events and ZIP events alike, an event whose point carries
\* a payload is decoded as the id of the payload, an event whose point
\* carries only a location or an index as the id of the row of the
\* last-rendered table at that location or index, and an event without
\* selected point as no id.
C19_BothFormsDecoded ==
    ev_pc = "done" =>
        IF ev_event = None \/ ev_event[1] = <<>>
        THEN ev_out = None
        ELSE C19_Decoded(ev_event[1][1])

\* the part of C19 for the ZIP map
C19_ZipFormsDecoded == ev_kind = "zip" => C19_BothFormsDecoded

\* a ZIP event without payload decoded by its location or its index
C19_ZipWitness ==
    /\ ev_pc = "done"
    /\ ev_kind = "zip"
    /\ ev_event # None /\ ev_event[1] # <<>>
    /\ ~C19_Payload(ev_event[1][1])
    /\ ev_out # None

(***************************************************************************)
(* The memoized functions (st.cache_data)                                  *)
(*                                                                         *)
(* st.cache_data keeps the value of a call under a key made of the         *)
(* function and of its hashed arguments; an argument whose parameter name  *)
(* starts with an underscore is not hashed. A cache is a function from     *)
(* keys to values.                                                         *)
(***************************************************************************)
\* the PTI of a row as a number: the tables used here have prices that are
\* multiples of the income
PtiNumber(pti) == pti[1] \div pti[2]

\* the rows of compute_pti(df_all_local) with the columns compute_yoy
\* reads: the group, the year and PTI as value
PtiProcessed(df_all) ==
    LET kept == compute_pti([i \in 1..Len(df_all) |->
                    [idx |-> i,
                     median_sale_price |-> df_all[i].median_sale_price,
                     per_capita_income |-> df_all[i].per_capita_income]])
    IN  [k \in 1..Len(kept) |->
            [group |-> df_all[kept[k].idx].group,
             year |-> df_all[kept[k].idx].year,
             value |-> PtiNumber(kept[k].PTI)]]

\* df_all_local[df_all_local["median_sale_price"].notna()] with the price
\* as value
PriceProcessed(df_all) ==
    LET kept == SelectSeq(df_all, LAMBDA row : notna(row.median_sale_price))
    IN  [k \in 1..Len(kept) |->
            [group |-> kept[k].group,
             year |-> kept[k].year,
             value |-> Val(kept[k].median_sale_price)]]

\* the body of get_metro_yoy
get_metro_yoy(df_all_input, current_year, metric_type_input) ==
    IF metric_type_input = "Price-to-Income Ratio (PTI)"
    THEN compute_yoy(PtiProcessed(df_all_input), current_year)
    ELSE compute_yoy(PriceProcessed(df_all_input), current_year)

\* the cache key of build_city_cbsa_polygons(df_city, _cbsa_gdf, metric_name)
PolygonsKey(df, cbsa, metric_name) == <<df, metric_name>>

\* the cache key of get_metro_yoy(df_all_input, current_year, metric_type_input)
MetroYoyKey(df_all_input, current_year, metric_type_input) ==
    <<df_all_input, current_year, metric_type_input>>

\* the value a call with the key returns: the cached one when there is one
Cached(cache, key, computed) == IF key \in DOMAIN cache THEN cache[key] ELSE computed

\* the cache after a call with the key
Stored(cache, key, computed) ==
    [k \in DOMAIN cache \cup {key} |-> IF k \in DOMAIN cache THEN cache[k] ELSE computed]

(***************************************************************************)
(* Inputs of the memoized functions                                        *)
(***************************************************************************)
MaxCalls == 3

\* df_city of two runs of the script
MemoCityTables ==
    {<<[city |-> "Seattle", city_full |-> "Seattle, WA", avg_metric_value |-> 100,
        lat |-> Num(39), lon |-> Num(-77)]>>,
     <<[city |-> "Washington", city_full |-> "Washington, DC", avg_metric_value |-> 200,
        lat |-> Num(39), lon |-> Num(-77)]>>}

\* two boundary sets
MemoCbsaSets ==
    {<<CbsaPool[1], CbsaPool[4]>>,
     <<CbsaPool[2], CbsaPool[6]>>}

\* two versions of the data set
MemoDataSets ==
    {<<[group |-> 1, year |-> 2020, median_sale_price |-> Num(100000), per_capita_income |-> Num(20000)],
       [group |-> 1, year |-> 2021, median_sale_price |-> Num(200000), per_capita_income |-> Num(20000)],
       [group |-> 1, year |-> 2022, median_sale_price |-> Num(300000), per_capita_income |-> NaN]>>,
     <<[group |-> 1, year |-> 2020, median_sale_price |-> Num(100000), per_capita_income |-> Num(20000)],
       [group |-> 1, year |-> 2021, median_sale_price |-> Num(100000), per_capita_income |-> Num(5000)],
       [group |-> 1, year |-> 2022, median_sale_price |-> NaN, per_capita_income |-> Num(5000)]>>}

MemoYears == {2021, 2022}

InitMemo ==
    /\ memo_polygons = <<>>
    /\ memo_yoy = <<>>
    /\ memo_call = <<>>
    /\ memo_returned = <<>>
    /\ memo_calls = 0
    /\ PtiIdle
    /\ RankIdle
    /\ YoyIdle
    /\ MatchIdle
    /\ ZipIdle
    /\ ResolveIdle
    /\ SelIdle
    /\ EventIdle
    /\ TokenIdle
    /\ RenderIdle

\* a call of the memoized build_city_cbsa_polygons
CallBuildCityCbsaPolygons ==
    /\ memo_calls \in 0..(MaxCalls - 1)
    /\ \E df \in MemoCityTables, cbsa \in MemoCbsaSets, metric_name \in SelMetrics :
          /\ memo_call' = [fn |-> "build_city_cbsa_polygons", df_city |-> df,
                           cbsa_gdf |-> cbsa, metric_name |-> metric_name]
          /\ memo_returned' = Cached(memo_polygons, PolygonsKey(df, cbsa, metric_name),
                                     build_city_cbsa_polygons(df, cbsa))
          /\ memo_polygons' = Stored(memo_polygons, PolygonsKey(df, cbsa, metric_name),
                                     build_city_cbsa_polygons(df, cbsa))
    /\ memo_calls' = memo_calls + 1
    /\ UNCHANGED memo_yoy
    /\ UNCHANGED <<ptiVars, rankVars, yoyVars, matchVars, zipVars, resolveVars, selVars, eventVars, tokenVars, renderVars>>

\* a call of the memoized get_metro_yoy
CallGetMetroYoy ==
    /\ memo_calls \in 0..(MaxCalls - 1)
    /\ \E df_all \in MemoDataSets, year \in MemoYears, metric \in SelMetrics :
          /\ memo_call' = [fn |-> "get_metro_yoy", df_all_input |-> df_all,
                           current_year |-> year, metric_type_input |-> metric]
          /\ memo_returned' = Cached(memo_yoy, MetroYoyKey(df_all, year, metric),
                                     get_metro_yoy(df_all, year, metric))
          /\ memo_yoy' = Stored(memo_yoy, MetroYoyKey(df_all, year, metric),
                                get_metro_yoy(df_all, year, metric))
    /\ memo_calls' = memo_calls + 1
    /\ UNCHANGED memo_polygons
    /\ UNCHANGED <<ptiVars, rankVars, yoyVars, matchVars, zipVars, resolveVars, selVars, eventVars, tokenVars, renderVars>>

NextMemo == CallBuildCityCbsaPolygons \/ CallGetMetroYoy

SpecMemo == InitMemo /\ [][NextMemo]_vars

(***************************************************************************)
(* Claims about the memoization                                            *)
(***************************************************************************)
\* the value the body of the function of the last call computes for the
\* arguments of the last call
C20_Computed ==
    IF memo_call.fn = "build_city_cbsa_polygons"
    THEN build_city_cbsa_polygons(memo_call.df_city, memo_call.cbsa_gdf)
    ELSE get_metro_yoy(memo_call.df_all_input, memo_call.current_year,
                       memo_call.metric_type_input)

\* C20: across any sequence of calls of build_city_cbsa_polygons and
\* get_metro_yoy, the value a call returns is the value its body computes
\* for the arguments of the call, also when only the boundary set differs
\* from an earlier call.
C20_NeverStale == memo_calls > 0 => memo_returned = C20_Computed

\* the part of C20 for get_metro_yoy
C20_MetroYoyNeverStale ==
    (memo_calls > 0 /\ memo_call.fn = "get_metro_yoy") => memo_returned = C20_Computed

\* get_metro_yoy returned a cached value
C20_MetroYoyWitness ==
    /\ memo_calls > 1
    /\ memo_call.fn = "get_metro_yoy"
    /\ memo_returned # <<>>
    /\ Cardinality(DOMAIN memo_yoy) = 1

(***************************************************************************)
(* build_city_tokens called on its own (geo_utils.py)                       *)
(*                                                                         *)
(* The base names are the strings of up to MaxTokenChars characters over a  *)
(* lowercase letter, an uppercase letter, a blank, the hyphen and the en    *)
(* dash, and the base name of the documented example.                      *)
(***************************************************************************)
MaxTokenChars == 4

TokenAlphabet == {"a", "B", " ", "-", "~"}

TokenExample == Chars("Dallas-Fort Worth")

TokenBaseNames ==
    UNION {[1..n -> TokenAlphabet] : n \in 0..MaxTokenChars} \cup {TokenExample}

InitTokens ==
    /\ tok_city_base \in TokenBaseNames
    /\ tok_out = <<>>
    /\ tok_pc = "call"
    /\ PtiIdle
    /\ RankIdle
    /\ YoyIdle
    /\ MatchIdle
    /\ ZipIdle
    /\ ResolveIdle
    /\ SelIdle
    /\ EventIdle
    /\ MemoIdle
    /\ RenderIdle

\* build_city_tokens(tok_city_base)
BuildCityTokens ==
    /\ tok_pc = "call"
    /\ tok_out' = build_city_tokens(tok_city_base)
    /\ tok_pc' = "done"
    /\ UNCHANGED tok_city_base
    /\ UNCHANGED <<ptiVars, rankVars, yoyVars, matchVars, zipVars, resolveVars, selVars, eventVars, memoVars, renderVars>>

NextTokens == BuildCityTokens

SpecTokens == InitTokens /\ [][NextTokens]_vars

(***************************************************************************)
(* Claims about build_city_tokens                                          *)
(***************************************************************************)
\* the base name lowercased and trimmed
C25_Base == Lower(Strip(tok_city_base))

\* the separators that occur in the base name, by their rank among the
\* separators
C25_Separators ==
    {s \in 1..Len(TOKEN_SEPARATORS) :
        \E k \in 1..Len(C25_Base) : C25_Base[k] = TOKEN_SEPARATORS[s]}

\* the stretches a..b of the base name between two occurrences of the
\* separator s (or an end of the name)
C25_Stretches(s) ==
    {ab \in (1..(Len(C25_Base) + 1)) \X (0..Len(C25_Base)) :
        /\ ab[1] <= ab[2] + 1
        /\ \A k \in ab[1]..ab[2] : C25_Base[k] # TOKEN_SEPARATORS[s]
        /\ ab[1] = 1 \/ C25_Base[ab[1] - 1] = TOKEN_SEPARATORS[s]
        /\ ab[2] = Len(C25_Base) \/ C25_Base[ab[2] + 1] = TOKEN_SEPARATORS[s]}

\* the occurrences <<separator, position, token>> of the tokens: the whole
\* base name first, then for each separator that occurs, hyphen before en
\* dash before em dash, the trimmed non-empty parts of the split on it
C25_Occurrences ==
    {<<0, 1, C25_Base>>} \cup
    UNION {{<<s, ab[1], Strip(SubSeq(C25_Base, ab[1], ab[2]))>> : ab \in C25_Stretches(s)} :
           s \in C25_Separators}

\* the whole base name and the non-empty parts
C25_Parts == {o \in C25_Occurrences : o[1] = 0 \/ o[3] # <<>>}

\* the first occurrence of the token
C25_First(token) ==
    CHOOSE o \in C25_Parts :
        /\ o[3] = token
        /\ \A q \in C25_Parts :
              q[3] = token => (o[1] < q[1] \/ (o[1] = q[1] /\ o[2] <= q[2]))

C25_Before(o, q) == o[1] < q[1] \/ (o[1] = q[1] /\ o[2] < q[2])

\* C25: build_city_tokens lowercases and trims the base name and returns
\* the whole base name first, followed by its non-empty trimmed parts split
\* on the hyphen-like separators (separator by separator), without
\* duplicates and in the order of first occurrence; "Dallas-Fort Worth"
\* gives "dallas-fort worth", "dallas", "fort worth"; a base name without
\* separator gives a single token and an empty base name gives no token.
C25_TokensOfBaseName ==
    tok_pc = "done" =>
        /\ C25_Base = <<>> => tok_out = <<>>
        /\ C25_Base # <<>> =>
              /\ tok_out[1] = C25_Base
              /\ Range(tok_out) = {o[3] : o \in C25_Parts}
              /\ \A p, q \in 1..Len(tok_out) : p < q => tok_out[p] # tok_out[q]
              /\ \A p, q \in 1..Len(tok_out) :
                    p < q => C25_Before(C25_First(tok_out[p]), C25_First(tok_out[q]))
              /\ C25_Separators = {} => tok_out = <<C25_Base>>
        /\ tok_city_base = TokenExample =>
              tok_out = <<Chars("dallas-fort worth"), Chars("dallas"), Chars("fort worth")>>

\* the documented example was tokenized
C25_Witness ==
    /\ tok_pc = "done"
    /\ tok_city_base = TokenExample
    /\ Len(tok_out) = 3

\* a base name whose two parts are the same token once trimmed
C25_WitnessDuplicate ==
    /\ tok_pc = "done"
    /\ tok_city_base = <<"a", "-", " ", "a">>
    /\ Len(tok_out) = 2

\* a base name with two kinds of separator
C25_WitnessTwoSeparators ==
    /\ tok_pc = "done"
    /\ Cardinality(C25_Separators) = 2
    /\ Len(tok_out) = 5

(***************************************************************************)
(* The recomputation pass from the year filter to the map (app.py,         *)
(* charts.py)                                                              *)
(*                                                                         *)
(* The outcome of a pass records whether an exception left the script,     *)
(* whether st.stop() ended it, whether the map of the view was drawn and   *)
(* the texts of st.info / st.warning / st.error in the order shown.        *)
(***************************************************************************)
PassOutcome(raised, stopped, chart, messages) ==
    [raised |-> raised, stopped |-> stopped, chart |-> chart, messages |-> messages]

\* df_zip_metric: the rows of df_year that have the metric, one row per
\* (city, ZIP), with metric_value
DfZipMetric(df_year, metric) ==
    LET kept == IF metric = "Price-to-Income Ratio (PTI)"
                THEN compute_pti([i \in 1..Len(df_year) |->
                         [idx |-> i,
                          median_sale_price |-> df_year[i].median_sale_price,
                          per_capita_income |-> df_year[i].per_capita_income]])
                ELSE SelectSeq([i \in 1..Len(df_year) |->
                                   [idx |-> i,
                                    median_sale_price |-> df_year[i].median_sale_price,
                                    PTI |-> NaN]],
                               LAMBDA row : notna(row.median_sale_price))
    IN  [k \in 1..Len(kept) |->
            [city |-> df_year[kept[k].idx].city,
             city_full |-> df_year[kept[k].idx].city_full,
             zip_code_str |-> df_year[kept[k].idx].zip_code_str,
             metric_value |-> IF metric = "Price-to-Income Ratio (PTI)"
                              THEN Num(PtiNumber(kept[k].PTI))
                              ELSE kept[k].median_sale_price,
             lat |-> df_year[kept[k].idx].lat,
             lon |-> df_year[kept[k].idx].lon]]

\* df_city: df_zip_metric grouped by metro; a metro of the data set has one
\* ZIP, whose values are the averages
DfCity(zip_metric) ==
    [k \in 1..Len(zip_metric) |->
        [city |-> zip_metric[k].city,
         city_full |-> zip_metric[k].city_full,
         avg_metric_value |-> zip_metric[k].metric_value,
         lat |-> zip_metric[k].lat,
         lon |-> zip_metric[k].lon]]

\* the rows of df_city with a defined avg_metric_value, as the matcher
\* reads them
ValidCityRows(city_rows) ==
    LET valid == SelectSeq(city_rows, LAMBDA row : notna(row.avg_metric_value))
    IN  [k \in 1..Len(valid) |-> [valid[k] EXCEPT !.avg_metric_value = Val(@)]]

\* create_city_choropleth: whether a figure is returned, and its messages
create_city_choropleth(city_rows, cbsa) ==
    IF city_rows = <<>> THEN [fig |-> FALSE, messages |-> <<>>]
    ELSE IF ValidCityRows(city_rows) = <<>>
    THEN [fig |-> FALSE, messages |-> <<"No valid data for">>]
    ELSE IF build_city_cbsa_polygons(df_city_map(ValidCityRows(city_rows)), cbsa) = <<>>
    THEN [fig |-> FALSE, messages |-> <<>>]
    ELSE [fig |-> TRUE, messages |-> <<>>]

\* the metro view: the banner, the national summary (idxmax raises on an
\* empty table) and the metro map when there is a figure
MetroViewPass(city_rows, cbsa) ==
    IF city_rows = <<>>
    THEN PassOutcome(TRUE, FALSE, FALSE, <<"Metro View">>)
    ELSE PassOutcome(FALSE, FALSE, create_city_choropleth(city_rows, cbsa).fig,
                     <<"Metro View">> \o create_city_choropleth(city_rows, cbsa).messages)

\* the ZIP view
ZipViewPass(city, zcta, zip_metric) ==
    IF city = None
    THEN PassOutcome(FALSE, TRUE, FALSE, <<"No metro selected">>)
    ELSE IF \/ get_zip_polygons_for_metro(city[1], zcta, zip_metric).gdf_merge = <<>>
            \/ get_zip_polygons_for_metro(city[1], zcta, zip_metric).zip_df_city = <<>>
    THEN PassOutcome(FALSE, FALSE, FALSE, <<"ZIP Codes", "No ZIP code data available for">>)
    ELSE IF ZipViewRows(get_zip_polygons_for_metro(city[1], zcta, zip_metric).zip_df_city,
                        get_zip_polygons_for_metro(city[1], zcta, zip_metric).gdf_merge) = <<>>
    THEN PassOutcome(FALSE, FALSE, FALSE, <<"ZIP Codes", "No valid data for">>)
    ELSE PassOutcome(FALSE, FALSE, TRUE, <<"ZIP Codes">>)

\* the pass from the year filter on
RenderPass(view, city, df_year, metric, cbsa, zcta) ==
    IF df_year = <<>>
    THEN PassOutcome(FALSE, TRUE, FALSE, <<"No data available for">>)
    ELSE IF DfZipMetric(df_year, metric) = <<>>
    THEN PassOutcome(FALSE, TRUE, FALSE,
                     IF metric = "Price-to-Income Ratio (PTI)"
                     THEN <<"PTI values out of range for">>
                     ELSE <<"No valid price data for">>)
    ELSE IF view = "city"
    THEN MetroViewPass(DfCity(DfZipMetric(df_year, metric)), cbsa)
    ELSE ZipViewPass(city, zcta, DfZipMetric(df_year, metric))

(***************************************************************************)
(* Inputs of the pass: a data set of up to MaxYearRows (metro, ZIP) rows   *)
(* for the selected year, each metro with one ZIP; prices that are         *)
(* multiples of the income                                                 *)
(***************************************************************************)
MaxYearRows == 2

RenderKeys ==
    <<[city |-> "Seattle", city_full |-> "Seattle, WA", zip_code_str |-> "98101"],
      [city |-> "Tacoma", city_full |-> "Tacoma, WA", zip_code_str |-> "98402"],
      [city |-> "Washington", city_full |-> "Washington, DC", zip_code_str |-> "20001"]>>

\* a missing price, a price with PTI 5 and a price with PTI 60
RenderPrices == {NaN, Num(250000), Num(3000000)}

RenderIncomes == {NaN, Num(50000)}

RenderYearTables ==
    {[r \in 1..Cardinality(pick) |->
         [city |-> RenderKeys[Ascending(pick)[r]].city,
          city_full |-> RenderKeys[Ascending(pick)[r]].city_full,
          zip_code_str |-> RenderKeys[Ascending(pick)[r]].zip_code_str,
          median_sale_price |-> price[Ascending(pick)[r]],
          per_capita_income |-> income[Ascending(pick)[r]],
          lat |-> Num(47),
          lon |-> Num(-122)]] :
        pick \in {p \in SUBSET (1..Len(RenderKeys)) : Cardinality(p) <= MaxYearRows},
        price \in [1..Len(RenderKeys) -> RenderPrices],
        income \in [1..Len(RenderKeys) -> RenderIncomes]}

\* no boundary, the boundary "Seattle, WA" and the boundary "Seattle, OR"
RenderCbsaSets == {<<>>, <<CbsaPool[6]>>, <<CbsaPool[5]>>}

RenderZctaSets ==
    {<<>>,
     <<[zip_code_str |-> "98101", geometry |-> 1]>>,
     <<[zip_code_str |-> "98101", geometry |-> 1], [zip_code_str |-> "98402", geometry |-> 2]>>}

InitRender ==
    /\ \/ rp_view = "city" /\ rp_city = None
       \/ rp_view = "zip" /\ rp_city \in {Just("Seattle"), Just("Tacoma")}
    /\ rp_df_year \in RenderYearTables
    /\ rp_metric \in SelMetrics
    /\ rp_cbsa \in RenderCbsaSets
    /\ rp_zcta \in RenderZctaSets
    /\ rp_out = <<>>
    /\ rp_pc = "call"
    /\ PtiIdle
    /\ RankIdle
    /\ YoyIdle
    /\ MatchIdle
    /\ ZipIdle
    /\ ResolveIdle
    /\ SelIdle
    /\ EventIdle
    /\ MemoIdle
    /\ TokenIdle

\* one pass of the script
Render ==
    /\ rp_pc = "call"
    /\ rp_out' = RenderPass(rp_view, rp_city, rp_df_year, rp_metric, rp_cbsa, rp_zcta)
    /\ rp_pc' = "done"
    /\ UNCHANGED <<rp_view, rp_city, rp_df_year, rp_metric, rp_cbsa, rp_zcta>>
    /\ UNCHANGED <<ptiVars, rankVars, yoyVars, matchVars, zipVars, resolveVars, selVars, eventVars, memoVars, tokenVars>>

NextRender == Render

SpecRender == InitRender /\ [][NextRender]_vars

(***************************************************************************)
(* Claims about the pass                                                   *)
(***************************************************************************)
\* the rows of the year that have the metric of the pass
C21_ValidRows ==
    {i \in 1..Len(rp_df_year) :
        /\ notna(rp_df_year[i].median_sale_price)
        /\ rp_metric = "Price-to-Income Ratio (PTI)" =>
              /\ notna(rp_df_year[i].per_capita_income)
              /\ Val(rp_df_year[i].median_sale_price) > 0
              /\ Val(rp_df_year[i].per_capita_income) >= 5000
              /\ 2 * Val(rp_df_year[i].median_sale_price) >= Val(rp_df_year[i].per_capita_income)
              /\ Val(rp_df_year[i].median_sale_price) <= 50 * Val(rp_df_year[i].per_capita_income)}

\* the metro rows of the pass find no boundary
C21_NoMatchedPolygons ==
    \A i \in C21_ValidRows :
        MatchRow([city |-> rp_df_year[i].city, city_full |-> rp_df_year[i].city_full,
                  lat |-> rp_df_year[i].lat, lon |-> rp_df_year[i].lon],
                 rp_cbsa).best = 0

\* the selected metro has no valid row whose ZIP has a boundary
C21_EmptyZipSet ==
    \A i \in C21_ValidRows :
        rp_df_year[i].city = rp_city[1] =>
            \A b \in 1..Len(rp_zcta) : rp_zcta[b].zip_code_str # rp_df_year[i].zip_code_str

\* the pass drew no map and showed a message other than the banner of its
\* view
C21_EmptyState ==
    /\ ~rp_out.chart
    /\ \E m \in 1..Len(rp_out.messages) : rp_out.messages[m] \notin {"Metro View", "ZIP Codes"}

\* C21: a pass never ends in an exception for the recoverable conditions:
\* with no data for the selected year, no valid metric value after the
\* filters, no matched polygon or an empty ZIP set for the selected metro,
\* the functions return empty results or None and the pass ends in an
\* empty-state message for that render path.
C21_RecoverableConditionsGiveMessage ==
    rp_pc = "done" =>
        /\ ~rp_out.raised
        /\ rp_df_year = <<>> => C21_EmptyState
        /\ C21_ValidRows = {} => C21_EmptyState
        /\ (rp_view = "city" /\ C21_NoMatchedPolygons) => C21_EmptyState
        /\ (rp_view = "zip" /\ C21_EmptyZipSet) => C21_EmptyState

\* what holds of the code: no exception, no map, and a message except in
\* the metro view without matched polygon
C21_NoExceptionNoMap ==
    rp_pc = "done" =>
        /\ ~rp_out.raised
        /\ (rp_df_year = <<>> \/ C21_ValidRows = {}) => (C21_EmptyState /\ rp_out.stopped)
        /\ (rp_view = "city" /\ C21_NoMatchedPolygons) => ~rp_out.chart
        /\ (rp_view = "zip" /\ C21_EmptyZipSet) => C21_EmptyState
        /\ ~rp_out.chart =>
              \/ rp_df_year = <<>>
              \/ C21_ValidRows = {}
              \/ rp_view = "city" /\ C21_NoMatchedPolygons
              \/ rp_view = "zip" /\ C21_EmptyZipSet

\* the metro view with valid rows of which none found a boundary: no map
\* and no message but the banner
C21_SilentMetroView ==
    /\ rp_pc = "done"
    /\ rp_view = "city"
    /\ C21_ValidRows # {}
    /\ C21_NoMatchedPolygons
    /\ rp_out = PassOutcome(FALSE, FALSE, FALSE, <<"Metro View">>)

====
